---- MODULE Spec2Model ----
(***************************************************************************)
(* State-machine model of the grid simulation engine (src/engine.js) and   *)
(* of the UI shell that paces it (src/app.js).                              *)
(*                                                                         *)
(* Number representation.  The engine computes with JavaScript doubles.    *)
(* The model holds them in fixed point:                                    *)
(*   - physical and money quantities (MW, MWh, $, $/MWh, degrees, m/s)     *)
(*     are integers counting 1/Scale units (Scale = 100, so the literal    *)
(*     0.01 of the code is 1 unit);                                        *)
(*   - dimensionless fractions (probabilities, efficiencies, capacity      *)
(*     factors, uniform and Gaussian deviates) are integers counting       *)
(*     1/Milli;                                                            *)
(*   - times are minutes.                                                  *)
(* Products and quotients round toward minus infinity.  The IEEE value NaN *)
(* and the JavaScript value undefined are the reserved integers NaN and    *)
(* Undefined, with the arithmetic of NaN given by the N-operators below.   *)
(***************************************************************************)
EXTENDS Integers, Sequences, FiniteSets, TLC

VARIABLES
    scenario,   \* the scenario object handed to the constructor
    eng,        \* the SimulationEngine under test
    twin,       \* a second engine built from the same scenario (determinism)
    idle,       \* the kinds of calls made on twin that executed no tick
    ret,        \* what the last operation returned or raised
    held,       \* previousState values the caller still holds from toggleUnit
    hist,       \* unit outputs around the last executed tick (history)
    acts,       \* how many user interventions have been made (model bound)
    ui          \* the SimulationUI that paces eng (src/app.js)

vars == <<scenario, eng, twin, idle, ret, held, hist, acts, ui>>

----------------------------------------------------------------------------
(* Fixed point and the JavaScript special values *)

Scale == 100
Milli == 1000

NaN == 0 - 1073741824
Undefined == 0 - 1073741823

IsNaN(x) == x = NaN
\* ToNumber(undefined) is NaN
ToNumber(x) == IF x = Undefined THEN NaN ELSE x
IsNum(x) == x # NaN /\ x # Undefined

Min2(a, b) == IF a <= b THEN a ELSE b
Max2(a, b) == IF a >= b THEN a ELSE b
Abs(a) == IF a < 0 THEN 0 - a ELSE a

\* IEEE arithmetic where an operand may be NaN
NAdd(a, b) == IF IsNaN(a) \/ IsNaN(b) THEN NaN ELSE a + b
NSub(a, b) == IF IsNaN(a) \/ IsNaN(b) THEN NaN ELSE a - b
NNeg(a) == IF IsNaN(a) THEN NaN ELSE 0 - a
NMin(a, b) == IF IsNaN(a) \/ IsNaN(b) THEN NaN ELSE Min2(a, b)
NMax(a, b) == IF IsNaN(a) \/ IsNaN(b) THEN NaN ELSE Max2(a, b)
NAbs(a) == IF IsNaN(a) THEN NaN ELSE Abs(a)
NGt(a, b) == ~IsNaN(a) /\ ~IsNaN(b) /\ a > b
NLt(a, b) == ~IsNaN(a) /\ ~IsNaN(b) /\ a < b
NGe(a, b) == ~IsNaN(a) /\ ~IsNaN(b) /\ a >= b
NLe(a, b) == ~IsNaN(a) /\ ~IsNaN(b) /\ a <= b

\* a * b where both are fixed point at 1/Scale
MulC(a, b) == IF IsNaN(a) \/ IsNaN(b) THEN NaN ELSE (a * b) \div Scale
\* a * f where f is a fraction at 1/Milli
MulF(a, f) == IF IsNaN(a) THEN NaN ELSE (a * f) \div Milli
\* a / f where f is a fraction at 1/Milli
DivF(a, f) == (a * Milli) \div f
\* x * tickHours and x / tickHours, tickHours = tickMinutes / 60
TimesHours(x, tickMinutes) == IF IsNaN(x) THEN NaN ELSE (x * tickMinutes) \div 60
PerHours(x, tickMinutes) == (x * 60) \div tickMinutes

\* Math.round(n / d) for n >= 0, d > 0: halves round up
RoundDiv(n, d) == (2 * n + d) \div (2 * d)
\* Math.ceil(n / d) for d > 0
CeilDiv(n, d) == 0 - ((0 - n) \div d)

\* the largest r in lo..hi with r * r <= n, by bisection
RECURSIVE IsqrtBetween(_, _, _)
IsqrtBetween(n, lo, hi) ==
    IF lo >= hi THEN lo
    ELSE LET mid == (lo + hi + 1) \div 2
         IN  IF mid * mid <= n THEN IsqrtBetween(n, mid, hi) ELSE IsqrtBetween(n, lo, mid - 1)
\* Math.sqrt of a fraction at 1/Milli, result at 1/Milli
SqrtF(f) == IsqrtBetween(f * Milli, 0, 32768)
\* Math.sqrt of a fixed-point quantity, result at 1/Scale
SqrtC(c) == IsqrtBetween(c * Scale, 0, 32768)

RECURSIVE SumSeq(_)
SumSeq(s) == IF s = <<>> THEN 0 ELSE Head(s) + SumSeq(Tail(s))

RECURSIVE NSumSeq(_)
NSumSeq(s) == IF s = <<>> THEN 0 ELSE NAdd(Head(s), NSumSeq(Tail(s)))

SeqMap(Op(_), s) == [i \in 1..Len(s) |-> Op(s[i])]

----------------------------------------------------------------------------
(* The seeded generator.  mulberry32 adds a constant to a 32-bit counter   *)
(* and returns a mix of it.  The model keeps the same structure on a       *)
(* RngBits-bit word (shifts scaled in proportion), so that the stream is a *)
(* deterministic function of the seed and of the number of draws.          *)

RngBits == 12
RngMod == 2 ^ RngBits
RngIncrement == 1747

RECURSIVE BitXor(_, _)
BitXor(a, b) ==
    IF a = 0 THEN b
    ELSE IF b = 0 THEN a
    ELSE ((a + b) % 2) + 2 * BitXor(a \div 2, b \div 2)

RECURSIVE BitOr(_, _)
BitOr(a, b) ==
    IF a = 0 THEN b
    ELSE IF b = 0 THEN a
    ELSE (IF a % 2 = 1 \/ b % 2 = 1 THEN 1 ELSE 0) + 2 * BitOr(a \div 2, b \div 2)

\* t after the three mixing lines of mulberry32, for counter value s
mulberry32(s) ==
    LET Line3(t) == BitXor(t, t \div 32)
        Line2(t) == Line3(BitXor(t, (t + ((BitXor(t, t \div 8) * BitOr(t, 61)) % RngMod))
                                        % RngMod))
    IN  Line2((BitXor(s, s \div 64) * BitOr(s, 1)) % RngMod)

NoGaussian == [has |-> FALSE, val |-> 0]

\* new RNG(seed)
NewRNG(seed) == [seed |-> seed % RngMod, nextGaussian |-> NoGaussian]

\* rng.next(): <<generator after the draw, value in [0, RngMod)>>; the
\* uniform double is value / RngMod
RngNext(rng) ==
    LET Drawn(s) == <<[rng EXCEPT !.seed = s], mulberry32(s)>>
    IN  Drawn((rng.seed + RngIncrement) % RngMod)

\* the uniform draw as a fraction at 1/Milli
UniformF(v) == (v * Milli) \div RngMod

\* rng.nextRange(min, max) on fixed-point bounds
RngNextRange(rng, min, max) ==
    LET Ranged(d) == <<d[1], min + ((max - min) * d[2]) \div RngMod>>
    IN  Ranged(RngNext(rng))

\* sqrt(-2 ln(s) / s) at 1/Milli, tabulated on sixteenths of s in (0, 1)
BoxMullerTable ==
    <<14893, 7106, 4874, 3728, 3003, 2493, 2106, 1798,
      1543, 1325, 1133, 959, 795, 635, 466, 256>>

\* the rejection loop of normal(): draws (u, v) until 0 < s < 1
RECURSIVE PolarPair(_)
PolarPair(rng) ==
    LET half == RngMod \div 2
        \* u, v in [-1, 1) at 1/half, s = u * u + v * v at 1/(half * half)
        Scaled(after, u, v, mul) ==
            [rng |-> after, first |-> (u * mul) \div half, second |-> (v * mul) \div half]
        Tested(after, u, v, s) ==
            IF s = 0 \/ s >= half * half
            THEN PolarPair(after)
            ELSE Scaled(after, u, v, BoxMullerTable[((s * 16) \div (half * half)) + 1])
        Squared(after, u, v) == Tested(after, u, v, u * u + v * v)
        Second(u, d2) == Squared(d2[1], u, d2[2] - half)
        First(d1) == Second(d1[2] - half, RngNext(d1[1]))
    IN  First(RngNext(rng))

\* rng.normal(mean, std): <<generator, value>>; the second deviate of a
\* pair is cached for the following call
RngNormal(rng, mean, std) ==
    IF rng.nextGaussian.has
    THEN <<[rng EXCEPT !.nextGaussian = NoGaussian], mean + MulF(std, rng.nextGaussian.val)>>
    ELSE LET Cached(p) == <<[p.rng EXCEPT !.nextGaussian = [has |-> TRUE, val |-> p.second]],
                             mean + MulF(std, p.first)>>
         IN  Cached(PolarPair(rng))

----------------------------------------------------------------------------
(* Curves *)

\* Math.sin at 1/Milli for whole twelfths of a turn (the angles a horizon
\* of 1, 2, 3, 4, 6 or 12 ticks produces)
SinTable == <<0, 500, 866, 1000, 866, 500, 0, -500, -866, -1000, -866, -500>>
SinTwelfths(k) == SinTable[(k % 12) + 1]

\* sin(2 pi tick / totalTicks - pi / 2) at 1/Milli
DiurnalSin(tick, totalTicks) == SinTwelfths(((12 * tick) \div totalTicks) + 9)

\* capacityFactorFromWind(speed): speed at 1/Scale m/s, result at 1/Milli
capacityFactorFromWind(speed) ==
    IF speed <= 3 * Scale THEN 0
    ELSE IF speed < 12 * Scale THEN ((speed - 3 * Scale) * 900) \div (9 * Scale)
    ELSE IF speed <= 25 * Scale THEN 900
    ELSE 0

\* solarIrradiance(tick, totalTicks, peak): peak and result at 1/Milli
solarIrradiance(tick, totalTicks, peak) ==
    LET daylight == Max2(0, DiurnalSin(tick, totalTicks))
    IN  Min2(peak, (daylight * peak) \div Milli)

\* timeOfDayCurve(tick, totalTicks): 40 sin(2 pi (tick / totalTicks - 0.25))
timeOfDayCurve(tick, totalTicks) == (40 * Scale * DiurnalSin(tick, totalTicks)) \div Milli

\* formatTime(date): the HH:MM label of a time given in minutes
formatTime(minutes) == <<(minutes \div 60) % 24, minutes % 60>>

----------------------------------------------------------------------------
(* Scenarios *)

\* zone a is a wind-rich hub with the battery, zone b holds the thermal
\* units (a slow costly one that can fail, a fast cheap one), zone c has
\* some solar; link ab leaves the hub, link ca enters it
BaseScenario ==
    [meta |-> [seed |-> 42, reservePercent |-> 10, priceCap |-> 200 * Scale,
               dayAheadDefaultPrice |-> 45 * Scale,
               scoreWeights |-> [reliability |-> 500, cost |-> 300, emissions |-> 200]],
     clock |-> [start |-> 0, durationHours |-> 3, tickMinutes |-> 60],
     zones |-> << [id |-> "a", baseLoad |-> 100 * Scale, tempSensitivity |-> 2 * Scale],
                  [id |-> "b", baseLoad |-> 110 * Scale, tempSensitivity |-> 1 * Scale],
                  [id |-> "c", baseLoad |-> 70 * Scale, tempSensitivity |-> 1 * Scale] >>,
     transmission |-> << [id |-> "ab", from |-> "a", to |-> "b", limit |-> 40 * Scale],
                         [id |-> "ca", from |-> "c", to |-> "a", limit |-> 80 * Scale] >>,
     thermalUnits |->
         << [id |-> "g1", zone |-> "b", pmax |-> 80 * Scale, pmin |-> 30 * Scale,
             ramp |-> 60 * Scale, heatRate |-> 10 * Scale, fuelPrice |-> 60 * Scale,
             vom |-> 3 * Scale, emissions |-> 50, reserveCap |-> 20 * Scale,
             poissonRate |-> 200, repairHours |-> <<1 * Scale, 2 * Scale>>],
            [id |-> "g2", zone |-> "b", pmax |-> 150 * Scale, pmin |-> 40 * Scale,
             ramp |-> 150 * Scale, heatRate |-> 8 * Scale, fuelPrice |-> 50 * Scale,
             vom |-> 2 * Scale, emissions |-> 40, reserveCap |-> 30 * Scale,
             poissonRate |-> 0, repairHours |-> <<1 * Scale, 1 * Scale>>] >>,
     renewables |-> [solar |-> << [zone |-> "c", pmax |-> 40 * Scale] >>,
                     wind |-> << [zone |-> "a", pmax |-> 400 * Scale] >>],
     battery |-> [zone |-> "a", power |-> 20 * Scale, durationHours |-> 2,
                  roundTripEff |-> 810, initialSoc |-> 500],
     weather |-> [temperature |-> [base |-> 20 * Scale, amplitude |-> 5 * Scale],
                  wind |-> [mean |-> 8 * Scale, variance |-> 4 * Scale],
                  solar |-> [peak |-> 800]]]

\* a horizon that is not a whole number of ticks (1 h in 40 min ticks), a
\* battery that starts full and has no efficiency configured, one unit
ShortTickScenario ==
    [BaseScenario EXCEPT
        !.meta.seed = 7,
        !.clock = [start |-> 1380, durationHours |-> 1, tickMinutes |-> 40],
        !.battery.initialSoc = 1000,
        !.battery.roundTripEff = 0,
        !.thermalUnits = << [id |-> "g3", zone |-> "c", pmax |-> 60 * Scale, pmin |-> 20 * Scale,
                             ramp |-> 45 * Scale, heatRate |-> 12 * Scale, fuelPrice |-> 50 * Scale,
                             vom |-> 4 * Scale, emissions |-> 90, reserveCap |-> 10 * Scale,
                             poissonRate |-> 900, repairHours |-> <<1 * Scale, 1 * Scale>>] >>]

Scenarios == {BaseScenario, ShortTickScenario}

----------------------------------------------------------------------------
(* Construction and reset *)

\* a variant that truncates the tick count instead of rounding it; the
\* termination property must tell it from the constructor's Math.round
TotalTicks_truncated(sc) == (sc.clock.durationHours * 60) \div sc.clock.tickMinutes

\* totalTicks = Math.round(durationHours * 60 / tickMinutes)
TotalTicks(sc) == RoundDiv(sc.clock.durationHours * 60, sc.clock.tickMinutes)

\* initializeBattery()
initializeBattery(sc) ==
    LET energyCapacity == sc.battery.power * sc.battery.durationHours
    IN  [zone |-> sc.battery.zone, power |-> sc.battery.power,
         durationHours |-> sc.battery.durationHours,
         roundTripEff |-> sc.battery.roundTripEff,
         initialSoc |-> sc.battery.initialSoc,
         energyCapacity |-> energyCapacity,
         socMWh |-> MulF(energyCapacity, sc.battery.initialSoc),
         modeSetting |-> "auto", mode |-> "idle", lastActionTick |-> -1]

\* one pass of the loop of generateWeatherSeries(), from index i on
RECURSIVE WeatherFrom(_, _, _, _, _)
WeatherFrom(sc, total, i, rng, w) ==
    IF i >= total THEN [rng |-> rng, weather |-> w]
    ELSE LET \* t, n, o: the three normal() draws of one pass, in order
             Solar(temp, wind, o) ==
                 WeatherFrom(sc, total, i + 1, o[1],
                     [tempSeries |-> Append(w.tempSeries, temp),
                      windSeries |-> Append(w.windSeries, wind),
                      solarSeries |->
                          Append(w.solarSeries,
                                 Min2(Milli, Max2(0, solarIrradiance(i, total,
                                                         sc.weather.solar.peak) + o[2])))])
             Wind(temp, n) ==
                 Solar(temp, Max2(0, sc.weather.wind.mean + n[2]), RngNormal(n[1], 0, 50))
             Temp(t) ==
                 Wind(sc.weather.temperature.base
                          + MulF(sc.weather.temperature.amplitude, DiurnalSin(i, total)) + t[2],
                      RngNormal(t[1], 0, SqrtC(sc.weather.wind.variance)))
         IN  Temp(RngNormal(rng, 0, 150))

\* generateWeatherSeries()
generateWeatherSeries(sc, total, rng) ==
    WeatherFrom(sc, total, 0, rng, [tempSeries |-> <<>>, windSeries |-> <<>>, solarSeries |-> <<>>])

NoEvent == <<>>

ZeroKpis ==
    [unmet |-> 0, avgPrice |-> 0, priceSum |-> 0, priceCount |-> 0, emissions |-> 0,
     cash |-> 0, energyRevenue |-> 0, fuelExpense |-> 0, vomExpense |-> 0,
     carbonExpense |-> 0, congestedTicks |-> 0, batteryThroughput |-> 0,
     loadServed |-> 0, totalLoad |-> 0]

NoOverrides == [gas |-> Undefined, reserve |-> Undefined, outage |-> Undefined, tx |-> Undefined]

----------------------------------------------------------------------------
(* Snapshots *)

\* buildDispatchStack(): one bar per tick-log entry of the previous hour
buildDispatchStack(e) ==
    LET ticksPerHour == RoundDiv(60, e.tickMinutes)
        currentHour == IF ticksPerHour = 0 THEN 0 ELSE e.state.tickIndex \div ticksPerHour
        startTick == Max2(0, currentHour * ticksPerHour - ticksPerHour)
        log == e.state.tickLog
        last == Min2(Len(log), startTick + ticksPerHour)
        Bar(entry) ==
            LET renew == SumSeq([i \in 1..Len(entry.zones) |-> entry.zones[i].renewable])
                load == NSumSeq([i \in 1..Len(entry.zones) |->
                                    NSub(entry.zones[i].load, entry.zones[i].netLoad)])
            IN  [renewables |-> renew,
                 thermal |-> NMax(0, NSub(load, renew)),
                 battery |-> TimesHours(entry.battery.dischargeMW, e.tickMinutes)]
    IN  [k \in 1..Max2(0, last - startTick) |-> Bar(log[startTick + k])]

\* buildSnapshot(initial, tickResult)
buildSnapshot(e, initial) ==
    LET st == e.state
        latest == IF Len(st.tickLog) = 0 THEN <<>> ELSE <<st.tickLog[Len(st.tickLog)]>>
        FromLog(i) == ~initial /\ latest # <<>> /\ i <= Len(latest[1].zones)
    IN  [timeLabel |-> formatTime(st.currentTime),
         zones |-> [i \in 1..Len(st.zones) |->
                      [id |-> st.zones[i].id,
                       load |-> IF FromLog(i) THEN latest[1].zones[i].load ELSE st.zones[i].load,
                       price |-> IF FromLog(i) THEN latest[1].zones[i].price ELSE st.zones[i].price,
                       congested |-> IF FromLog(i) THEN latest[1].zones[i].congested
                                     ELSE st.zones[i].congested]],
         links |-> [i \in 1..Len(st.links) |->
                      [id |-> st.links[i].id, from |-> st.links[i].from, to |-> st.links[i].to,
                       \* link.flow || 0 turns NaN into 0
                       flow |-> IF IsNaN(st.links[i].flow) THEN 0 ELSE st.links[i].flow,
                       limit |-> st.links[i].limit, congested |-> st.links[i].congested]],
         kpis |-> [unmet |-> st.kpis.unmet,
                   avgPrice |-> IF st.kpis.priceCount # 0
                                THEN st.kpis.priceSum \div st.kpis.priceCount ELSE 0,
                   emissions |-> st.kpis.emissions, cash |-> st.kpis.cash],
         lastEvent |-> st.lastEvent,
         dispatchStack |-> buildDispatchStack(e),
         priceHistory |-> st.priceHistory,
         battery |-> [soc |-> IF st.battery.energyCapacity = 0 THEN NaN
                              ELSE (st.battery.socMWh * Milli) \div st.battery.energyCapacity,
                      mode |-> IF st.battery.modeSetting = "auto" THEN st.battery.mode
                               ELSE st.battery.modeSetting],
         units |-> [i \in 1..Len(st.thermal) |->
                      [id |-> st.thermal[i].id,
                       committed |-> st.thermal[i].commandOn \/ st.thermal[i].committed,
                       toggleAllowed |-> st.thermal[i].outageTicks = 0,
                       toggleReason |-> IF st.thermal[i].outageTicks > 0 THEN "Outage" ELSE "",
                       output |-> st.thermal[i].output]],
         done |-> st.done]

\* currentSnapshot()
currentSnapshot(e) == buildSnapshot(e, TRUE)

----------------------------------------------------------------------------
(* Constructor, reset and the lifecycle operations *)

\* the runtime state reset() builds, before the weather series exist
FreshState(sc) ==
    [tickIndex |-> 0,
     currentTime |-> sc.clock.start,
     zones |-> [i \in 1..Len(sc.zones) |->
                  [id |-> sc.zones[i].id, baseLoad |-> sc.zones[i].baseLoad,
                   tempSensitivity |-> sc.zones[i].tempSensitivity,
                   load |-> 0, price |-> 0, renewable |-> 0, netLoad |-> 0,
                   congested |-> FALSE]],
     links |-> [i \in 1..Len(sc.transmission) |->
                  [id |-> sc.transmission[i].id, from |-> sc.transmission[i].from,
                   to |-> sc.transmission[i].to, limit |-> sc.transmission[i].limit,
                   flow |-> 0, congested |-> FALSE]],
     thermal |-> [i \in 1..Len(sc.thermalUnits) |->
                    [id |-> sc.thermalUnits[i].id, zone |-> sc.thermalUnits[i].zone,
                     pmax |-> sc.thermalUnits[i].pmax, pmin |-> sc.thermalUnits[i].pmin,
                     ramp |-> sc.thermalUnits[i].ramp, heatRate |-> sc.thermalUnits[i].heatRate,
                     fuelPrice |-> sc.thermalUnits[i].fuelPrice, vom |-> sc.thermalUnits[i].vom,
                     emissions |-> sc.thermalUnits[i].emissions,
                     reserveCap |-> sc.thermalUnits[i].reserveCap,
                     poissonRate |-> sc.thermalUnits[i].poissonRate,
                     repairHours |-> sc.thermalUnits[i].repairHours,
                     committed |-> FALSE, commandOn |-> FALSE, output |-> 0,
                     outageTicks |-> 0, targetOutput |-> 0, toggleAllowed |-> TRUE,
                     toggleReason |-> ""]],
     battery |-> initializeBattery(sc),
     weather |-> [tempSeries |-> <<>>, windSeries |-> <<>>, solarSeries |-> <<>>],
     priceHistory |-> <<>>,
     dispatchHistory |-> <<>>,
     kpis |-> ZeroKpis,
     events |-> <<>>,
     dayAhead |-> [quantity |-> 0, price |-> sc.meta.dayAheadDefaultPrice, settled |-> FALSE],
     overrides |-> NoOverrides,
     tickLog |-> <<>>,
     done |-> FALSE,
     lastEvent |-> NoEvent,
     eventCounter |-> 0]

\* a variant that keeps the links of the old runtime state, and with them a
\* transmission limit set by applyOverrides; the reset property must tell it
\* from reset()
reset_keepsLinks(e) ==
    LET Rebuilt(fresh, w) ==
            [fresh EXCEPT !.rng = w.rng,
                          !.state.weather = w.weather,
                          !.latestSnapshot = buildSnapshot(fresh, TRUE),
                          !.preRun = TRUE,
                          !.running = FALSE]
    IN  Rebuilt([e EXCEPT !.state = [FreshState(e.scenario) EXCEPT !.links = e.state.links]],
                generateWeatherSeries(e.scenario, e.totalTicks, NewRNG(e.scenario.meta.seed)))

\* reset(): e keeps its scenario, options and tick geometry
reset(e) ==
    LET Rebuilt(fresh, w) ==
            [fresh EXCEPT !.rng = w.rng,
                          !.state.weather = w.weather,
                          !.latestSnapshot = buildSnapshot(fresh, TRUE),
                          !.preRun = TRUE,
                          !.running = FALSE]
    IN  Rebuilt([e EXCEPT !.state = FreshState(e.scenario)],
                generateWeatherSeries(e.scenario, e.totalTicks, NewRNG(e.scenario.meta.seed)))

\* new SimulationEngine(scenario, {headless})
NewEngine(sc, headless) ==
    reset([scenario |-> sc, headless |-> headless,
           tickMinutes |-> sc.clock.tickMinutes, totalTicks |-> TotalTicks(sc),
           preRun |-> TRUE, running |-> FALSE,
           rng |-> NewRNG(sc.meta.seed), state |-> FreshState(sc),
           latestSnapshot |-> <<>>])

\* startRun(contract): [e |-> engine afterwards, threw |-> whether it raised]
startRun(e, contract) ==
    IF ~e.preRun THEN [e |-> e, threw |-> TRUE]
    ELSE [e |-> [e EXCEPT !.state.dayAhead.quantity = contract.quantity,
                          !.state.dayAhead.price = contract.price,
                          !.preRun = FALSE,
                          !.running = TRUE],
          threw |-> FALSE]

\* pause()
pause(e) == [e EXCEPT !.running = FALSE]

\* canResume()
canResume(e) == ~e.preRun /\ ~e.running /\ ~e.state.done

\* resume()
resume(e) == IF canResume(e) THEN [e EXCEPT !.running = TRUE] ELSE e

----------------------------------------------------------------------------
(* User actions between ticks *)

BatteryModes == {"charge", "discharge", "auto"}

\* setBatteryMode(mode)
setBatteryMode(e, mode) ==
    LET battery == e.state.battery
    IN  IF mode \notin BatteryModes THEN e
        ELSE IF battery.modeSetting = mode THEN e
        ELSE IF \/ mode = "charge" /\ battery.socMWh >= battery.energyCapacity - 1
                \/ mode = "discharge" /\ battery.socMWh <= 1
        THEN [e EXCEPT !.state.lastEvent =
                 << [hasId |-> FALSE, id |-> 0, time |-> formatTime(e.state.currentTime),
                     message |-> [kind |-> "batteryBlocked", unit |-> "", num |-> 0]] >>]
        ELSE [e EXCEPT !.state.battery.modeSetting = mode]

\* thermal.find((u) => u.id === unitId): index of the first match, 0 if none
FindUnit(thermal, unitId) ==
    IF \E i \in 1..Len(thermal) : thermal[i].id = unitId
    THEN CHOOSE i \in 1..Len(thermal) :
            /\ thermal[i].id = unitId
            /\ \A j \in 1..(i - 1) : thermal[j].id # unitId
    ELSE 0

NoPrevious == [commandOn |-> FALSE, committed |-> FALSE, output |-> 0]

\* a variant that does not look at outageTicks; the toggle property must
\* tell it from toggleUnit
toggleUnit_ignoresOutage(e, unitId) ==
    LET Found(k) ==
            IF k = 0
            THEN [e |-> e, ok |-> FALSE, reason |-> "Unit not found.",
                  previousState |-> NoPrevious]
            ELSE [e |-> [e EXCEPT !.state.thermal[k].commandOn = ~e.state.thermal[k].commandOn],
                  ok |-> TRUE, reason |-> "",
                  previousState |-> [commandOn |-> e.state.thermal[k].commandOn,
                                     committed |-> e.state.thermal[k].committed,
                                     output |-> e.state.thermal[k].output]]
    IN  Found(FindUnit(e.state.thermal, unitId))

\* toggleUnit(unitId): [e, ok, reason, previousState]
toggleUnit(e, unitId) ==
    LET Found(k) ==
            IF k = 0
            THEN [e |-> e, ok |-> FALSE, reason |-> "Unit not found.",
                  previousState |-> NoPrevious]
            ELSE IF e.state.thermal[k].outageTicks > 0
            THEN [e |-> e, ok |-> FALSE, reason |-> "Unit is on forced outage.",
                  previousState |-> NoPrevious]
            ELSE [e |-> [e EXCEPT !.state.thermal[k].commandOn = ~e.state.thermal[k].commandOn],
                  ok |-> TRUE, reason |-> "",
                  previousState |-> [commandOn |-> e.state.thermal[k].commandOn,
                                     committed |-> e.state.thermal[k].committed,
                                     output |-> e.state.thermal[k].output]]
    IN  Found(FindUnit(e.state.thermal, unitId))

\* a variant that puts back committed and output and leaves commandOn as it
\* is; the undo property must tell it from restoreUnitState
restoreUnitState_keepsCommand(e, unitId, previous) ==
    LET Found(k) ==
            IF k = 0 THEN e
            ELSE [e EXCEPT !.state.thermal[k].committed = previous.committed,
                           !.state.thermal[k].output = previous.output]
    IN  Found(FindUnit(e.state.thermal, unitId))

\* restoreUnitState(unitId, previous)
restoreUnitState(e, unitId, previous) ==
    LET Found(k) ==
            IF k = 0 THEN e
            ELSE [e EXCEPT !.state.thermal[k].commandOn = previous.commandOn,
                           !.state.thermal[k].committed = previous.committed,
                           !.state.thermal[k].output = previous.output]
    IN  Found(FindUnit(e.state.thermal, unitId))

\* applyOverrides({gas, reserve, outage, tx}): a field that is absent from
\* the argument is Undefined, one the caller blanked is NaN
applyOverrides(e, o) ==
    LET ov == e.state.overrides
        ov1 == IF ~IsNaN(o.gas) THEN [ov EXCEPT !.gas = o.gas] ELSE ov
        ov2 == IF ~IsNaN(o.reserve) THEN [ov1 EXCEPT !.reserve = o.reserve] ELSE ov1
        ov3 == IF ~IsNaN(o.outage) THEN [ov2 EXCEPT !.outage = o.outage] ELSE ov2
        ov4 == IF ~IsNaN(o.tx) THEN [ov3 EXCEPT !.tx = o.tx] ELSE ov3
    IN  [e EXCEPT !.state.overrides = ov4,
                  !.state.links = IF ~IsNaN(o.tx)
                                  THEN [i \in 1..Len(e.state.links) |->
                                           [e.state.links[i] EXCEPT !.limit = o.tx]]
                                  ELSE e.state.links]

\* logEvent(message, time) on a runtime state
logEvent(st, message, time) ==
    LET event == [hasId |-> TRUE, id |-> st.eventCounter, time |-> formatTime(time),
                  message |-> message]
    IN  [st EXCEPT !.eventCounter = st.eventCounter + 1,
                   !.events = Append(st.events, event),
                   !.lastEvent = <<event>>]

----------------------------------------------------------------------------
(* One tick: load and renewables *)

\* array.find((x) => x.id === id): index of the first match, 0 if none
FindById(seq, id) ==
    IF \E i \in 1..Len(seq) : seq[i].id = id
    THEN CHOOSE i \in 1..Len(seq) : seq[i].id = id /\ \A j \in 1..(i - 1) : seq[j].id # id
    ELSE 0

\* computeRenewables(zoneId, solar, windSpeed)
computeRenewables(sc, zoneId, solar, windSpeed) ==
    LET sp == sc.renewables.solar
        wp == sc.renewables.wind
        cf == capacityFactorFromWind(windSpeed)
    IN  SumSeq([i \in 1..Len(sp) |->
                  IF sp[i].zone = zoneId
                  THEN Min2(sp[i].pmax, MulF(sp[i].pmax, Max2(0, solar))) ELSE 0])
        + SumSeq([i \in 1..Len(wp) |->
                  IF wp[i].zone = zoneId
                  THEN Min2(wp[i].pmax, MulF(wp[i].pmax, cf)) ELSE 0])

LoadNoiseStd == 8
LoadFloor == 50

\* the "Load & renewables" loop of executeTick, from zone i on
RECURSIVE ZoneLoadsFrom(_, _, _, _, _)
ZoneLoadsFrom(e, idx, i, rng, acc) ==
    IF i > Len(e.state.zones) THEN [rng |-> rng, zones |-> acc]
    ELSE LET sc == e.scenario
             id == e.state.zones[i].id
             zoneConfig == sc.zones[FindById(sc.zones, id)]
             temperature == e.state.weather.tempSeries[idx + 1]
             baseLoad == zoneConfig.baseLoad + timeOfDayCurve(idx, e.totalTicks)
             \* noise: the normal() draw of this zone, with the generator after it
             Pushed(noise, load, renewable) ==
                 ZoneLoadsFrom(e, idx, i + 1, noise[1],
                     Append(acc, [id |-> id, load |-> load, price |-> 0,
                                  renewable |-> renewable,
                                  netLoad |-> Max2(0, load - renewable),
                                  congestionAdder |-> 0, congested |-> FALSE,
                                  netSupply |-> 0, balance |-> 0, reserveShort |-> 0]))
             Noisy(noise) ==
                 Pushed(noise,
                        Max2(LoadFloor * Scale,
                             baseLoad + MulC(zoneConfig.tempSensitivity,
                                             temperature - sc.weather.temperature.base)
                             + noise[2]),
                        computeRenewables(sc, id, e.state.weather.solarSeries[idx + 1],
                                          e.state.weather.windSeries[idx + 1]))
         IN  Noisy(RngNormal(rng, 0, LoadNoiseStd * Scale))

----------------------------------------------------------------------------
(* One tick: battery *)

DefaultRoundTripEff == 900
AutoBand == 20

\* dispatchBattery(zones): [battery, zones, dispatch]
\* a variant without the floor at 0; the state-of-charge bounds must tell it
\* from the clamped subtraction
socAfterDischarge_unclamped(battery, energyRemoved) == battery.socMWh - energyRemoved

\* the state of charge after removing energyRemoved:
\* Math.max(0, battery.socMWh - energyRemoved)
socAfterDischarge(battery, energyRemoved) == Max2(0, battery.socMWh - energyRemoved)

\* the state of charge after adding energyAdded:
\* Math.min(battery.energyCapacity, battery.socMWh + energyAdded)
socAfterCharge(battery, energyAdded) ==
    Min2(battery.energyCapacity, battery.socMWh + energyAdded)

dispatchBattery(e, zones) ==
    LET battery == e.state.battery
        tm == e.tickMinutes
        availableCharge == PerHours(Max2(0, battery.energyCapacity - battery.socMWh), tm)
        availableDischarge == PerHours(battery.socMWh, tm)
        Stored(chargeMW, dischargeMW, soc, mode) ==
            [battery |-> [battery EXCEPT !.socMWh = soc, !.mode = mode],
             zones |-> [i \in 1..Len(zones) |->
                          IF zones[i].id = battery.zone
                          THEN [zones[i] EXCEPT !.netLoad =
                                   Max2(0, zones[i].netLoad + chargeMW - dischargeMW)]
                          ELSE zones[i]],
             dispatch |-> [chargeMW |-> chargeMW, dischargeMW |-> dischargeMW, mode |-> mode,
                           throughput |-> TimesHours(chargeMW + dischargeMW, tm)]]
        Moved(eff, charging, discharging, chargeMW, dischargeMW) ==
            Stored(chargeMW, dischargeMW,
                   IF charging
                   THEN socAfterCharge(battery, MulF(TimesHours(chargeMW, tm), eff))
                   ELSE IF discharging
                   THEN socAfterDischarge(battery, DivF(TimesHours(dischargeMW, tm), eff))
                   ELSE battery.socMWh,
                   IF charging THEN "charge" ELSE IF discharging THEN "discharge" ELSE "idle")
        Sized(charging, discharging) ==
            Moved(SqrtF(IF battery.roundTripEff = 0 THEN DefaultRoundTripEff
                        ELSE battery.roundTripEff),
                  charging, discharging,
                  IF charging THEN Min2(battery.power, availableCharge) ELSE 0,
                  IF discharging THEN Min2(battery.power, availableDischarge) ELSE 0)
        Charging(desired, charging) ==
            Sized(charging, ~charging /\ desired = "discharge" /\ availableDischarge > 1)
        Desired(desired) == Charging(desired, desired = "charge" /\ availableCharge > 1)
        Auto(a, netLoadDeviation) ==
            Desired(IF battery.modeSetting = "auto"
                    THEN \* autoDecision
                         IF a = 0 THEN "idle"
                         ELSE IF netLoadDeviation > AutoBand * Scale THEN "discharge"
                         ELSE IF netLoadDeviation < 0 - AutoBand * Scale THEN "charge"
                         ELSE "idle"
                    ELSE battery.modeSetting)
        Located(a) == Auto(a, IF a # 0 THEN zones[a].netLoad - MulF(zones[a].load, 900) ELSE 0)
    IN  Located(FindById(zones, battery.zone))

----------------------------------------------------------------------------
(* One tick: forced outages *)

\* 1 - exp(-x) at 1/Milli, x at 1/Milli, tabulated on tenths of x up to 4
OneMinusExpTable ==
    <<0, 95, 181, 259, 330, 393, 451, 503, 551, 593, 632, 667, 699, 727, 753, 777,
      798, 817, 835, 850, 865, 878, 889, 900, 909, 918, 926, 933, 939, 945, 950,
      955, 959, 963, 967, 970, 973, 975, 978, 980, 982>>
OneMinusExp(x) ==
    IF x < 0 THEN 0 - 1
    ELSE IF x \div 100 >= 40 THEN OneMinusExpTable[41]
    ELSE OneMinusExpTable[(x \div 100) + 1]

\* the multiplier applyOutage uses: overrides.outage || 1
outageMultiplier(e) ==
    IF e.state.overrides.outage = Undefined \/ e.state.overrides.outage = 0
    THEN Milli ELSE e.state.overrides.outage

\* the per-tick probability applyOutage computes for a unit, at 1/Milli
outageProbability(e, unit) ==
    LET ratePerHour == MulF(unit.poissonRate, outageMultiplier(e))
    IN  OneMinusExp(TimesHours(ratePerHour, e.tickMinutes))

\* applyOutage(unit, currentTime) for unit k of runtime state st, followed by
\* the forced-off lines of the executeTick loop: [st, rng]
applyOutage(e, st, rng, k, currentTime) ==
    LET unit == st.thermal[k]
        ForceOff(s) ==
            IF s.thermal[k].outageTicks > 0
            THEN [s EXCEPT !.thermal[k].commandOn = FALSE,
                           !.thermal[k].committed = FALSE,
                           !.thermal[k].output = 0]
            ELSE s
        Returned(s1) ==
            IF unit.outageTicks - 1 = 0
            THEN logEvent(s1, [kind |-> "returned", unit |-> unit.id, num |-> 0], currentTime)
            ELSE s1
        Tripped(s2) ==
            [s2 EXCEPT !.thermal[k].output = 0,
                       !.thermal[k].committed = FALSE,
                       !.thermal[k].targetOutput = 0]
        \* h: the nextRange() draw of the repair time, with the generator after it
        Repair(h) ==
            [st |-> ForceOff(Tripped(logEvent(
                        [st EXCEPT !.thermal[k].outageTicks =
                                       CeilDiv(h[2] * 60, e.tickMinutes * Scale)],
                        [kind |-> "forcedOutage", unit |-> unit.id,
                         num |-> (h[2] + 5) \div 10],
                        currentTime))),
             rng |-> h[1]]
        \* d: the next() draw compared with the probability
        Drawn(d) ==
            IF d[2] * Milli < outageProbability(e, unit) * RngMod
            THEN Repair(RngNextRange(d[1], unit.repairHours[1], unit.repairHours[2]))
            ELSE [st |-> ForceOff(st), rng |-> d[1]]
    IN  IF unit.outageTicks > 0
        THEN [st |-> ForceOff(Returned([st EXCEPT !.thermal[k].outageTicks =
                                                     unit.outageTicks - 1])),
              rng |-> rng]
        ELSE Drawn(RngNext(rng))

\* the "Thermal units ramping & outages" loop of executeTick, from unit k on
RECURSIVE OutagesFrom(_, _, _, _, _)
OutagesFrom(e, st, rng, k, currentTime) ==
    IF k > Len(st.thermal) THEN [st |-> st, rng |-> rng]
    ELSE LET Rest(r) == OutagesFrom(e, r.st, r.rng, k + 1, currentTime)
         IN  Rest(applyOutage(e, st, rng, k, currentTime))

----------------------------------------------------------------------------
(* One tick: thermal dispatch *)

\* variableCost(unit): heatRate * fuelPrice / 10 + vom, gas override first
variableCost(e, unit) ==
    LET gasOverride == e.state.overrides.gas
        fuelPrice == IF gasOverride = Undefined THEN unit.fuelPrice ELSE gasOverride
    IN  (MulC(unit.heatRate, fuelPrice) \div 10) + unit.vom

\* the reserve percent in force: overrides.reserve ?? meta.reservePercent
reservePercent(e) ==
    IF e.state.overrides.reserve = Undefined THEN e.scenario.meta.reservePercent
    ELSE e.state.overrides.reserve

\* determineUnitTarget(unit, loadRemaining, reserveRequirement, zoneAllocation):
\* [unit, alloc, loadServed]
determineUnitTarget(unit, loadRemaining, reserveRequirement, alloc) ==
    IF unit.outageTicks > 0
    THEN [unit |-> [unit EXCEPT !.targetOutput = 0, !.toggleAllowed = FALSE,
                                !.toggleReason = "Outage"],
          alloc |-> alloc, loadServed |-> 0]
    ELSE LET u1 == [unit EXCEPT !.toggleAllowed = TRUE, !.toggleReason = ""]
             rampUpLimit == unit.output + unit.ramp
             rampDownLimit == Max2(0, unit.output - unit.ramp)
             maxOutput == Min2(unit.pmax, rampUpLimit)
             minOutput == IF unit.commandOn THEN Min2(unit.pmin, maxOutput) ELSE 0
             d0 == Min2(maxOutput, loadRemaining)
             desired == IF d0 < minOutput /\ loadRemaining > 0
                        THEN Min2(maxOutput, Max2(minOutput, loadRemaining))
                        ELSE d0
             reserveAdded == Max2(0, Min2(unit.reserveCap, maxOutput - desired))
         IN  \* output <= 0.001 is output <= 0 on the 0.01 grid
             IF ~unit.commandOn /\ unit.output * 10 <= 1
             THEN [unit |-> [u1 EXCEPT !.targetOutput = 0, !.committed = FALSE],
                   alloc |-> alloc, loadServed |-> 0]
             ELSE IF ~unit.commandOn
             THEN [unit |-> [u1 EXCEPT !.targetOutput = rampDownLimit],
                   alloc |-> [alloc EXCEPT !.output = alloc.output + rampDownLimit],
                   loadServed |-> rampDownLimit]
             ELSE [unit |-> [u1 EXCEPT !.targetOutput = desired],
                   alloc |-> [output |-> alloc.output + desired,
                              reserve |-> alloc.reserve + reserveAdded],
                   loadServed |-> desired]

\* a variant that keeps the list in descending cost, the costliest unit
\* first; the merit-order property must tell it from InsertByCost
RECURSIVE InsertByCost_costliestFirst(_, _, _, _)
InsertByCost_costliestFirst(e, thermal, sorted, k) ==
    IF sorted = <<>> THEN <<k>>
    ELSE IF variableCost(e, thermal[Head(sorted)]) >= variableCost(e, thermal[k])
    THEN <<Head(sorted)>> \o InsertByCost_costliestFirst(e, thermal, Tail(sorted), k)
    ELSE <<k>> \o sorted

\* insert index k into a list of unit indices kept in ascending cost, after
\* every entry that is not costlier (Array.prototype.sort is stable)
RECURSIVE InsertByCost(_, _, _, _)
InsertByCost(e, thermal, sorted, k) ==
    IF sorted = <<>> THEN <<k>>
    ELSE IF variableCost(e, thermal[Head(sorted)]) <= variableCost(e, thermal[k])
    THEN <<Head(sorted)>> \o InsertByCost(e, thermal, Tail(sorted), k)
    ELSE <<k>> \o sorted

\* unitsByZone[zone.id].slice().sort(by variableCost): indices into thermal
RECURSIVE MeritOrderFrom(_, _, _, _, _)
MeritOrderFrom(e, thermal, zoneId, k, sorted) ==
    IF k > Len(thermal) THEN sorted
    ELSE MeritOrderFrom(e, thermal, zoneId, k + 1,
             IF thermal[k].zone = zoneId THEN InsertByCost(e, thermal, sorted, k) ELSE sorted)

MeritOrder(e, thermal, zoneId) == MeritOrderFrom(e, thermal, zoneId, 1, <<>>)

\* the units.forEach of dispatchThermal for one zone: [thermal, alloc, loadRemaining]
RECURSIVE DispatchUnitsFrom(_, _, _, _, _)
DispatchUnitsFrom(thermal, order, loadRemaining, reserveRequirement, alloc) ==
    IF order = <<>> THEN [thermal |-> thermal, alloc |-> alloc, loadRemaining |-> loadRemaining]
    ELSE LET Rest(k, t) ==
                 DispatchUnitsFrom([thermal EXCEPT ![k] = t.unit], Tail(order),
                                   Max2(0, loadRemaining - t.loadServed),
                                   reserveRequirement, t.alloc)
         IN  Rest(Head(order),
                  determineUnitTarget(thermal[Head(order)], loadRemaining,
                                      reserveRequirement, alloc))

\* the second zones.forEach of dispatchThermal, from zone i on
RECURSIVE DispatchZonesFrom(_, _, _, _, _)
DispatchZonesFrom(e, thermal, zones, allocations, i) ==
    IF i > Len(zones) THEN [thermal |-> thermal, zones |-> zones, allocations |-> allocations]
    ELSE LET Rest(r) ==
                 DispatchZonesFrom(e, r.thermal,
                                   [zones EXCEPT ![i].netLoad = r.loadRemaining],
                                   [allocations EXCEPT ![i] = r.alloc], i + 1)
         IN  Rest(DispatchUnitsFrom(thermal, MeritOrder(e, thermal, zones[i].id),
                                    zones[i].netLoad,
                                    (zones[i].load * reservePercent(e)) \div 100,
                                    allocations[i]))

\* dispatchThermal(zones): [thermal, zones, allocations]
dispatchThermal(e, thermal, zones) ==
    DispatchZonesFrom(e, thermal, zones,
                      [i \in 1..Len(zones) |-> [output |-> 0, reserve |-> 0]], 1)

----------------------------------------------------------------------------
(* One tick: transmission *)

CongestionAdder == 15

\* a variant of the link step that moves min(surplus, deficit) whatever the
\* limit; the flow property must tell it from BalanceLink
BalanceLink_ignoresLimit(links, zones, l) ==
    LET f == FindById(zones, links[l].from)
        t == FindById(zones, links[l].to)
        flow == IF NGt(zones[f].balance, 0) /\ NLt(zones[t].balance, 0)
                THEN NMin(zones[f].balance, NNeg(zones[t].balance))
                ELSE IF NGt(zones[t].balance, 0) /\ NLt(zones[f].balance, 0)
                THEN NNeg(NMin(zones[t].balance, NNeg(zones[f].balance)))
                ELSE 0
    IN  [links |-> [links EXCEPT ![l].flow = flow, ![l].congested = FALSE],
         zones |-> [zones EXCEPT ![f].balance = NSub(@, flow), ![t].balance = NAdd(@, flow)],
         congested |-> FALSE]

\* the body of links.forEach in balanceTransmission for link l: [links, zones, congested]
BalanceLink(links, zones, l) ==
    LET link == links[l]
        limit == ToNumber(link.limit)
        Marked(flow, congested, moved) ==
            [links |-> [links EXCEPT ![l].flow = flow, ![l].congested = congested],
             zones |-> IF congested
                       THEN [i \in 1..Len(moved) |->
                               IF moved[i].id = link.from \/ moved[i].id = link.to
                               THEN [moved[i] EXCEPT
                                        !.congested = TRUE,
                                        !.congestionAdder = Max2(moved[i].congestionAdder,
                                                                 CongestionAdder * Scale)]
                               ELSE moved[i]]
                       ELSE moved,
             congested |-> congested]
        Moved(f, t, moving, flow) ==
            Marked(flow, NGe(NAbs(flow), NSub(limit, 1)),
                   IF moving
                   THEN [zones EXCEPT ![f].balance = NSub(@, flow),
                                      ![t].balance = NAdd(@, flow)]
                   ELSE zones)
        Directed(f, t, forward, backward) ==
            Moved(f, t, forward \/ backward,
                  IF forward
                  THEN NMin(NMin(zones[f].balance, NNeg(zones[t].balance)), limit)
                  ELSE IF backward
                  THEN NNeg(NMin(NMin(zones[t].balance, NNeg(zones[f].balance)), limit))
                  ELSE 0)
        Forward(f, t, forward) ==
            Directed(f, t, forward,
                     ~forward /\ NGt(zones[t].balance, 0) /\ NLt(zones[f].balance, 0))
        Ends(f, t) == Forward(f, t, NGt(zones[f].balance, 0) /\ NLt(zones[t].balance, 0))
    IN  Ends(FindById(zones, link.from), FindById(zones, link.to))

\* a variant of the loop that reports only whether the last link is
\* congested; the congested-tick count must tell it from BalanceLinksFrom
RECURSIVE BalanceLinksFrom_lastLinkOnly(_, _, _, _)
BalanceLinksFrom_lastLinkOnly(links, zones, l, congested) ==
    IF l > Len(links) THEN [links |-> links, zones |-> zones, congested |-> congested]
    ELSE LET Rest(r) == BalanceLinksFrom_lastLinkOnly(r.links, r.zones, l + 1, r.congested)
         IN  Rest(BalanceLink(links, zones, l))

RECURSIVE BalanceLinksFrom(_, _, _, _)
BalanceLinksFrom(links, zones, l, congested) ==
    IF l > Len(links) THEN [links |-> links, zones |-> zones, congested |-> congested]
    ELSE LET Rest(r) == BalanceLinksFrom(r.links, r.zones, l + 1, congested \/ r.congested)
         IN  Rest(BalanceLink(links, zones, l))

\* balanceTransmission(zones, allocations, batteryDispatch): [links, zones, congested]
balanceTransmission(e, links, zones, allocations, batteryDispatch) ==
    LET NetSupply(i) ==
            allocations[i].output + zones[i].renewable
            + (IF zones[i].id = e.state.battery.zone
               THEN batteryDispatch.dischargeMW - batteryDispatch.chargeMW
               ELSE 0)
        Balanced(r) ==
            [links |-> r.links,
             zones |-> [i \in 1..Len(r.zones) |->
                          [r.zones[i] EXCEPT !.netLoad = NMax(0, NNeg(r.zones[i].balance))]],
             congested |-> r.congested]
    IN  Balanced(BalanceLinksFrom(links,
                     [i \in 1..Len(zones) |->
                        [zones[i] EXCEPT !.netSupply = NetSupply(i),
                                         !.balance = NetSupply(i) - zones[i].load,
                                         !.congested = FALSE,
                                         !.congestionAdder = 0]],
                     1, FALSE))

----------------------------------------------------------------------------
(* One tick: prices and costs *)

PriceFloor == 30

\* computePrice(zone, loadShed)
computePrice(e, thermal, zone, loadShed) ==
    IF loadShed THEN e.scenario.meta.priceCap
    ELSE LET costs == {variableCost(e, thermal[k]) :
                          k \in {j \in 1..Len(thermal) :
                                    thermal[j].zone = zone.id /\ thermal[j].targetOutput > 0}}
             marginalCost == CHOOSE m \in costs \cup {PriceFloor * Scale} :
                                \A c \in costs \cup {PriceFloor * Scale} : m >= c
         IN  IF zone.congestionAdder # 0 THEN marginalCost + zone.congestionAdder
             ELSE marginalCost

\* a variant of the pricing step that leaves out the final Math.min with the
\* price cap; the price-cap property must tell it from the capped step
PriceZone_uncapped(e, thermal, zone, alloc, unmetLoad) ==
    LET requirement == (zone.load * reservePercent(e)) \div 100
        Priced(price) ==
            [zone EXCEPT !.reserveShort = Max2(0, requirement - alloc.reserve),
                         !.price = IF zone.congestionAdder > 0
                                   THEN price + zone.congestionAdder ELSE price]
    IN  Priced(computePrice(e, thermal, zone, NGt(unmetLoad, 0)))

\* the pricing zones.forEach of executeTick for one zone
PriceZone(e, thermal, zone, alloc, unmetLoad) ==
    LET requirement == (zone.load * reservePercent(e)) \div 100
        Priced(price) ==
            [zone EXCEPT !.reserveShort = Max2(0, requirement - alloc.reserve),
                         !.price = Min2(IF zone.congestionAdder > 0
                                        THEN price + zone.congestionAdder ELSE price,
                                        e.scenario.meta.priceCap)]
    IN  Priced(computePrice(e, thermal, zone, NGt(unmetLoad, 0)))

ShutdownSnap == 10

\* updateUnitOutput(unit, target): the unit afterwards (its output is the
\* value returned)
\* a variant that ramps up at the full ramp rate whatever the target and
\* pmax; the output bounds must tell it from the capped update
updateUnitOutput_pastPmax(unit, target) ==
    LET n0 == IF target > unit.output
              THEN unit.output + unit.ramp
              ELSE Max2(unit.output - unit.ramp, target)
    IN  IF ~unit.commandOn /\ n0 <= ShutdownSnap
        THEN [unit EXCEPT !.output = 0, !.committed = FALSE]
        ELSE IF unit.commandOn /\ n0 >= unit.pmin - unit.ramp
        THEN [unit EXCEPT !.output = n0, !.committed = TRUE]
        ELSE [unit EXCEPT !.output = n0]

updateUnitOutput(unit, target) ==
    LET n0 == IF target > unit.output
              THEN Min2(unit.output + unit.ramp, Min2(unit.pmax, target))
              ELSE Max2(unit.output - unit.ramp, target)
    IN  IF ~unit.commandOn /\ n0 <= ShutdownSnap
        THEN [unit EXCEPT !.output = 0, !.committed = FALSE]
        ELSE IF unit.commandOn /\ n0 >= unit.pmin - unit.ramp
        THEN [unit EXCEPT !.output = n0, !.committed = TRUE]
        ELSE [unit EXCEPT !.output = n0]

\* computeCosts(zones, allocations): [thermal, fuelExpense, vomExpense, emissions, revenue]
computeCosts(e, thermal, zones) ==
    LET tm == e.tickMinutes
        \* th: the units after updateUnitOutput
        Costs(th) ==
            [thermal |-> th,
             fuelExpense |-> SumSeq([k \in 1..Len(th) |->
                 TimesHours(MulC(th[k].output, variableCost(e, th[k]) - th[k].vom), tm)]),
             vomExpense |-> SumSeq([k \in 1..Len(th) |->
                 TimesHours(MulC(th[k].vom, th[k].output), tm)]),
             emissions |-> SumSeq([k \in 1..Len(th) |->
                 TimesHours(MulC(th[k].emissions, th[k].output), tm)]),
             revenue |-> NSumSeq([i \in 1..Len(zones) |->
                 TimesHours(MulC(NMax(0, NSub(zones[i].load, zones[i].netLoad)),
                                 zones[i].price), tm)])]
    IN  Costs([k \in 1..Len(thermal) |->
                  updateUnitOutput(thermal[k], thermal[k].targetOutput)])

----------------------------------------------------------------------------
(* One tick: log, settlement, and the tick itself *)

\* a variant that writes no record; the one-record-per-tick property must
\* tell it from recordTickLog
recordTickLog_noEntry(st, time, zones, congested, batteryDispatch) == st

\* recordTickLog(time, zones, transmission, batteryDispatch) on runtime state st
recordTickLog(st, time, zones, congested, batteryDispatch) ==
    LET entry ==
          [timestamp |-> time,
           temperature |-> st.weather.tempSeries[st.tickIndex + 1],
           zones |-> [i \in 1..Len(zones) |->
                        [id |-> zones[i].id, load |-> zones[i].load, price |-> zones[i].price,
                         renewable |-> zones[i].renewable, netLoad |-> zones[i].netLoad,
                         congested |-> zones[i].congested]],
           battery |-> [soc |-> IF st.battery.energyCapacity = 0 THEN NaN
                                ELSE (st.battery.socMWh * Milli) \div st.battery.energyCapacity,
                        mode |-> st.battery.mode,
                        chargeMW |-> batteryDispatch.chargeMW,
                        dischargeMW |-> batteryDispatch.dischargeMW],
           congestion |-> congested,
           kpis |-> [unmet |-> st.kpis.unmet, cash |-> st.kpis.cash]]
    IN  [st EXCEPT !.tickLog = Append(st.tickLog, entry)]

\* Number.prototype.toFixed(0) of a fixed-point amount: the nearest integer
ToFixed0(x) ==
    IF IsNaN(x) THEN NaN
    ELSE IF x >= 0 THEN (x + (Scale \div 2)) \div Scale
    ELSE 0 - ((0 - x + (Scale \div 2)) \div Scale)

\* the day-ahead settlement finalizeRun computes
Settlement(sc, dayAhead, avgPrice) ==
    IF IsNaN(avgPrice) THEN NaN
    ELSE MulC(dayAhead.price - avgPrice, dayAhead.quantity) * sc.clock.durationHours

\* a variant that adds the settlement and logs it but never marks the
\* contract settled; the once-only settlement property must tell it from
\* finalizeRun()
finalizeRun_leavesUnsettled(sc, st) ==
    LET avgPrice == IF st.kpis.priceCount # 0 THEN st.kpis.priceSum \div st.kpis.priceCount
                    ELSE 0
        s1 == [st EXCEPT !.done = TRUE, !.kpis.avgPrice = avgPrice]
        Settle(settlement) ==
            logEvent([s1 EXCEPT !.kpis.cash = NAdd(s1.kpis.cash, settlement)],
                     [kind |-> "settled", unit |-> "", num |-> ToFixed0(settlement)],
                     s1.currentTime)
    IN  IF ~st.dayAhead.settled THEN Settle(Settlement(sc, st.dayAhead, avgPrice)) ELSE s1

\* finalizeRun() on runtime state st
finalizeRun(sc, st) ==
    LET avgPrice == IF st.kpis.priceCount # 0 THEN st.kpis.priceSum \div st.kpis.priceCount
                    ELSE 0
        s1 == [st EXCEPT !.done = TRUE, !.kpis.avgPrice = avgPrice]
        Settle(settlement) ==
            logEvent([s1 EXCEPT !.kpis.cash = NAdd(s1.kpis.cash, settlement),
                                !.dayAhead.settled = TRUE],
                     [kind |-> "settled", unit |-> "", num |-> ToFixed0(settlement)],
                     s1.currentTime)
    IN  IF ~st.dayAhead.settled THEN Settle(Settlement(sc, st.dayAhead, avgPrice)) ELSE s1

\* executeTick(): [e, done]
executeTick(e) ==
    LET st == e.state
        idx == st.tickIndex
        sc == e.scenario
        tm == e.tickMinutes
        currentTime == st.currentTime
        k0 == st.kpis
        \* the stages of one tick, last first; each takes what the earlier
        \* stages produced under the names the source gives them
        Advanced(rng, s3) ==
            IF s3.tickIndex >= e.totalTicks
            THEN [e |-> [e EXCEPT !.rng = rng, !.state = finalizeRun(sc, s3)], done |-> TRUE]
            ELSE [e |-> [e EXCEPT !.rng = rng, !.state = s3], done |-> FALSE]
        Logged(rng, s2) ==
            Advanced(rng, [s2 EXCEPT !.tickIndex = idx + 1, !.currentTime = currentTime + tm])
        Accounted(bat, out, trn, unmetLoad, zoneStates, priceSample, servedLoad, costs) ==
            Logged(out.rng,
                   recordTickLog(
                       [out.st EXCEPT
                          !.thermal = costs.thermal,
                          !.links = trn.links,
                          !.priceHistory =
                              IF Len(st.priceHistory) + 1 > e.totalTicks
                              THEN Tail(Append(st.priceHistory, priceSample))
                              ELSE Append(st.priceHistory, priceSample),
                          !.kpis =
                              [k0 EXCEPT
                                 !.unmet = NAdd(k0.unmet, TimesHours(unmetLoad, tm)),
                                 !.priceSum = k0.priceSum
                                     + (SumSeq(priceSample) \div Len(zoneStates)),
                                 !.priceCount = k0.priceCount + 1,
                                 !.totalLoad = k0.totalLoad
                                     + TimesHours(SumSeq([i \in 1..Len(zoneStates) |->
                                                             zoneStates[i].load]), tm),
                                 !.loadServed = NAdd(k0.loadServed,
                                                     TimesHours(servedLoad, tm)),
                                 !.cash = NAdd(k0.cash,
                                               NSub(NSub(costs.revenue, costs.fuelExpense),
                                                    costs.vomExpense)),
                                 !.energyRevenue = NAdd(k0.energyRevenue, costs.revenue),
                                 !.fuelExpense = k0.fuelExpense + costs.fuelExpense,
                                 !.vomExpense = k0.vomExpense + costs.vomExpense,
                                 !.emissions = k0.emissions + costs.emissions,
                                 !.congestedTicks = k0.congestedTicks
                                     + (IF trn.congested THEN 1 ELSE 0),
                                 !.batteryThroughput = k0.batteryThroughput
                                     + bat.dispatch.throughput],
                          !.zones =
                              [i \in 1..Len(st.zones) |->
                                  [st.zones[i] EXCEPT
                                      !.load = zoneStates[i].load,
                                      !.price = zoneStates[i].price,
                                      !.renewable = zoneStates[i].renewable,
                                      !.netLoad = zoneStates[i].netLoad,
                                      !.congested = zoneStates[i].congested]]],
                       currentTime, zoneStates, trn.congested, bat.dispatch))
        Priced(bat, out, thr, trn, unmetLoad, zoneStates) ==
            Accounted(bat, out, trn, unmetLoad, zoneStates,
                      [i \in 1..Len(zoneStates) |-> zoneStates[i].price],
                      NSumSeq([i \in 1..Len(zoneStates) |->
                                  NMax(0, NSub(zoneStates[i].load, zoneStates[i].netLoad))]),
                      computeCosts(e, thr.thermal, zoneStates))
        Short(bat, out, thr, trn, unmetLoad) ==
            Priced(bat, out, thr, trn, unmetLoad,
                   [i \in 1..Len(trn.zones) |->
                       PriceZone(e, thr.thermal, trn.zones[i], thr.allocations[i], unmetLoad)])
        Balanced(bat, out, thr, trn) ==
            Short(bat, out, thr, trn,
                  NSumSeq([i \in 1..Len(trn.zones) |-> NMax(0, trn.zones[i].netLoad)]))
        Dispatched(bat, out, thr) ==
            Balanced(bat, out, thr,
                     balanceTransmission(e, out.st.links, thr.zones, thr.allocations,
                                         bat.dispatch))
        Outaged(bat, out) == Dispatched(bat, out, dispatchThermal(e, out.st.thermal, bat.zones))
        Charged(loads, bat) ==
            Outaged(bat, OutagesFrom(e, [st EXCEPT !.battery = bat.battery], loads.rng, 1,
                                     currentTime))
        Loaded(loads) == Charged(loads, dispatchBattery(e, loads.zones))
    IN  IF idx >= e.totalTicks
        THEN [e |-> IF ~st.done THEN [e EXCEPT !.state = finalizeRun(sc, st)] ELSE e,
              done |-> TRUE]
        ELSE Loaded(ZoneLoadsFrom(e, idx, 1, e.rng, <<>>))

\* a variant whose no-op branch (not running, not headless) takes a draw
\* from the generator; the determinism property must tell it from step()
step_drawsWhenIdle(e) ==
    IF e.state.done
    THEN [e |-> e, snapshot |-> [e.latestSnapshot EXCEPT !.done = TRUE], ticked |-> FALSE]
    ELSE IF ~e.running /\ ~e.headless
    THEN [e |-> [e EXCEPT !.rng = RngNext(e.rng)[1]], snapshot |-> e.latestSnapshot,
          ticked |-> FALSE]
    ELSE LET Published(e2) == [e |-> e2, snapshot |-> e2.latestSnapshot, ticked |-> TRUE]
             Ticked(tickResult) ==
                 Published([tickResult.e EXCEPT
                               !.latestSnapshot = buildSnapshot(tickResult.e, FALSE),
                               !.running = IF tickResult.done THEN FALSE ELSE @])
         IN  Ticked(executeTick(e))

\* a variant that advances the clock before it looks at state.done; the
\* idempotence of step() after the end of the run must tell it from step()
step_countsAfterDone(e) ==
    IF e.state.done
    THEN [e |-> [e EXCEPT !.state.currentTime = @ + e.tickMinutes],
          snapshot |-> [e.latestSnapshot EXCEPT !.done = TRUE], ticked |-> FALSE]
    ELSE IF ~e.running /\ ~e.headless
    THEN [e |-> e, snapshot |-> e.latestSnapshot, ticked |-> FALSE]
    ELSE LET Published(e2) == [e |-> e2, snapshot |-> e2.latestSnapshot, ticked |-> TRUE]
             Ticked(tickResult) ==
                 Published([tickResult.e EXCEPT
                               !.latestSnapshot = buildSnapshot(tickResult.e, FALSE),
                               !.running = IF tickResult.done THEN FALSE ELSE @])
         IN  Ticked(executeTick(e))

\* a variant that executes a tick whether or not the engine is running; the
\* frame of step() on an idle engine must tell it from step()
step_ticksWhenIdle(e) ==
    IF e.state.done
    THEN [e |-> e, snapshot |-> [e.latestSnapshot EXCEPT !.done = TRUE], ticked |-> FALSE]
    ELSE LET Published(e2) == [e |-> e2, snapshot |-> e2.latestSnapshot, ticked |-> TRUE]
             Ticked(tickResult) ==
                 Published([tickResult.e EXCEPT
                               !.latestSnapshot = buildSnapshot(tickResult.e, FALSE),
                               !.running = IF tickResult.done THEN FALSE ELSE @])
         IN  Ticked(executeTick(e))

\* step(): [e, snapshot, ticked]
step(e) ==
    IF e.state.done
    THEN [e |-> e, snapshot |-> [e.latestSnapshot EXCEPT !.done = TRUE], ticked |-> FALSE]
    ELSE IF ~e.running /\ ~e.headless
    THEN [e |-> e, snapshot |-> e.latestSnapshot, ticked |-> FALSE]
    ELSE LET Published(e2) == [e |-> e2, snapshot |-> e2.latestSnapshot, ticked |-> TRUE]
             Ticked(tickResult) ==
                 Published([tickResult.e EXCEPT
                               !.latestSnapshot = buildSnapshot(tickResult.e, FALSE),
                               !.running = IF tickResult.done THEN FALSE ELSE @])
         IN  Ticked(executeTick(e))

\* the while loop of runHeadless(): step() until state.done
RECURSIVE StepUntilDone(_)
StepUntilDone(e) == IF e.state.done THEN e ELSE StepUntilDone(step(e).e)

\* runHeadless(): [e, threw]; the score it returns is computeScore()
runHeadless(e) ==
    LET Started(s) ==
            IF s.threw THEN [e |-> e, threw |-> TRUE]
            ELSE [e |-> StepUntilDone(s.e), threw |-> FALSE]
    IN  Started(startRun(e, [quantity |-> 0, price |-> e.scenario.meta.dayAheadDefaultPrice]))

----------------------------------------------------------------------------
(* Score and export *)

CashScale == 100000
EmissionsScale == 1000
CongestionBadgeTicks == 10

\* 1 - x / d as a fraction at 1/Milli, x and d at 1/Scale; NaN if x is NaN
\* (x * Milli / d without the product where d is a multiple of Milli)
OneMinusRatio(x, d) ==
    IF IsNaN(x) THEN NaN
    ELSE IF d % Milli = 0 THEN Milli - (x \div (d \div Milli))
    ELSE Milli - ((x * Milli) \div d)

\* Math.max(0, Math.min(1, f)) on a fraction at 1/Milli
Clamp01(f) == NMax(0, NMin(Milli, f))

\* the badges of computeScore(): the three earned ones, then one push of the
\* generic badge if fewer than three were earned
Badges(kpis, battery) ==
    (IF NLt(kpis.unmet, 1) THEN <<"Zero Shed Day">> ELSE <<>>)
    \o (IF kpis.congestedTicks < CongestionBadgeTicks THEN <<"Congestion Manager">> ELSE <<>>)
    \o (IF kpis.batteryThroughput > battery.energyCapacity THEN <<"Battery Hero">> ELSE <<>>)

\* computeScore(): [reliability, costScore, emissionsScore, total, badges],
\* the scores as fractions at 1/Milli
computeScore(e) ==
    LET weights == e.scenario.meta.scoreWeights
        kpis == e.state.kpis
        Scored(reliability, costScore, emissionsScore, badges) ==
            [reliability |-> reliability,
             costScore |-> costScore,
             emissionsScore |-> emissionsScore,
             total |-> NAdd(NAdd(MulF(reliability, weights.reliability),
                                 MulF(costScore, weights.cost)),
                            MulF(emissionsScore, weights.emissions)),
             badges |-> IF Len(badges) < 3 THEN Append(badges, "Market Explorer") ELSE badges]
    IN  Scored(NMax(0, OneMinusRatio(kpis.unmet, Max2(1 * Scale, kpis.totalLoad))),
               Clamp01(OneMinusRatio(kpis.cash, CashScale * Scale)),
               Clamp01(OneMinusRatio(kpis.emissions, EmissionsScale * Scale)),
               Badges(kpis, e.state.battery))

\* Number.prototype.toFixed(digits) of a value kept at 1/unit, unit = 10^digits:
\* sign, integer part and fraction digits, or "NaN"
ToFixed(x, unit) ==
    IF IsNaN(x) THEN <<"NaN">>
    ELSE <<IF x < 0 THEN "-" ELSE "", Abs(x) \div unit, Abs(x) % unit>>

CsvHeader ==
    <<"timestamp", "temperature", "zone", "load", "price", "renewable", "netLoad",
      "batterySOC", "batteryMode", "cash">>

\* the rows exportCsv() pushes for one tick-log entry, one per zone of the entry
CsvRows(entry) ==
    [i \in 1..Len(entry.zones) |->
        <<entry.timestamp,
          ToFixed(entry.temperature, Scale),
          entry.zones[i].id,
          ToFixed(entry.zones[i].load, Scale),
          ToFixed(entry.zones[i].price, Scale),
          ToFixed(entry.zones[i].renewable, Scale),
          ToFixed(entry.zones[i].netLoad, Scale),
          ToFixed(entry.battery.soc, Milli),
          entry.battery.mode,
          ToFixed(entry.kpis.cash, Scale)>>]

\* a variant that starts over at each entry, so that only the last tick is
\* exported; the row count must tell it from the loop of exportCsv()
RECURSIVE CsvRowsFrom_lastOnly(_, _, _)
CsvRowsFrom_lastOnly(tickLog, n, rows) ==
    IF n > Len(tickLog) THEN rows
    ELSE CsvRowsFrom_lastOnly(tickLog, n + 1, <<CsvHeader>> \o CsvRows(tickLog[n]))

\* the tickLog.forEach of exportCsv(), from entry n on
RECURSIVE CsvRowsFrom(_, _, _)
CsvRowsFrom(tickLog, n, rows) ==
    IF n > Len(tickLog) THEN rows
    ELSE CsvRowsFrom(tickLog, n + 1, rows \o CsvRows(tickLog[n]))

\* exportCsv(): the rows that are joined with newlines, header first
exportCsv(e) == CsvRowsFrom(e.state.tickLog, 1, <<CsvHeader>>)

----------------------------------------------------------------------------
(* The page: the SimulationUI object of src/app.js *)

\* the fields the constructor sets: no interval timer, speed 1, no last
\* action; the feedback line is empty and the undo button cannot be clicked
NewUI ==
    [tickTimer |-> FALSE, speed |-> 1, lastAction |-> <<>>, feedback |-> "",
     undoDisabled |-> TRUE]

\* the speeds the page offers from the keyboard
Speeds == {1, 4}

\* Math.floor(tick / (60 / tickMinutes)): the simulated hour a tick index
\* falls in
simulatedHour(e, tick) == (tick * e.tickMinutes) \div 60

----------------------------------------------------------------------------
(* The engine driven through its public operations *)

MaxActions == 2

\* day-ahead contracts a caller starts a run with
Contracts == {[quantity |-> 50 * Scale, price |-> 40 * Scale]}

\* arguments of applyOverrides: the UI passes NaN for a blank field, a
\* programmatic caller may leave a field out (Undefined)
Blank == [gas |-> NaN, reserve |-> NaN, outage |-> NaN, tx |-> NaN]
OverrideInputs ==
    {[Blank EXCEPT !.tx = 10 * Scale],
     [Blank EXCEPT !.tx = 0],
     [Blank EXCEPT !.gas = 300 * Scale],
     [Blank EXCEPT !.outage = 0],
     [Blank EXCEPT !.outage = 2 * Milli],
     [gas |-> Undefined, reserve |-> 20, outage |-> Undefined, tx |-> Undefined]}

ModeInputs == BatteryModes \cup {"standby"}

UnitIds(sc) == {sc.thermalUnits[k].id : k \in 1..Len(sc.thermalUnits)}
UnitInputs(sc) == UnitIds(sc) \cup {"g9"}

NoSnapshot == <<>>

\* what a call gives back: nothing (kind "void"), an Error (kind "error"),
\* a snapshot, the result object of toggleUnit, the score of runHeadless
\* or computeScore, or the rows of exportCsv
Ret(kind) ==
    [kind |-> kind, by |-> "", ok |-> TRUE, reason |-> "", previousState |-> NoPrevious,
     snapshot |-> NoSnapshot, score |-> <<>>, rows |-> <<>>]

Outputs(e) == [k \in 1..Len(e.state.thermal) |-> e.state.thermal[k].output]

\* what the last executed tick did to the units: their outputs at its start
\* and at its end, and the units it left on forced outage or commanded on
Forced(e) == [k \in 1..Len(e.state.thermal) |-> e.state.thermal[k].outageTicks > 0]
CommandedOn(e) == [k \in 1..Len(e.state.thermal) |-> e.state.thermal[k].commandOn]

NoHist(e) ==
    [ticks |-> 0, startLast |-> Outputs(e), endLast |-> Outputs(e),
     forced |-> Forced(e), on |-> CommandedOn(e)]

\* hist after an executed tick that took engine e to engine f
HistAfterTick(h, e, f) ==
    [ticks |-> h.ticks + 1, startLast |-> Outputs(e),
     endLast |-> Outputs(f), forced |-> Forced(f), on |-> CommandedOn(f)]

\* hist after step() took e to f in a run of n further ticks
RECURSIVE HistAfterRun(_, _)
HistAfterRun(h, e) ==
    IF e.state.done THEN h
    ELSE LET Rest(f) ==
                 HistAfterRun(IF f.state.tickIndex # e.state.tickIndex
                              THEN HistAfterTick(h, e, f) ELSE h, f)
         IN  Rest(step(e).e)

\* the bound on user interventions: one that changes the engine uses up one
\* of MaxActions, one that changes nothing is always possible
Budget(e, f) ==
    IF f = e THEN acts' = acts ELSE acts < MaxActions /\ acts' = acts + 1

\* the options each scenario's engine is constructed with
Headless(sc) == sc.clock.tickMinutes # 60

Init ==
    /\ scenario \in Scenarios
    /\ eng = NewEngine(scenario, Headless(scenario))
    /\ twin = eng
    /\ idle = {}
    /\ ret = Ret("void")
    /\ held = <<>>
    /\ hist = NoHist(eng)
    /\ acts = 0
    /\ ui = NewUI

StartRun ==
    \E contract \in Contracts :
        LET Called(r) ==
                /\ eng' = r.e
                /\ ret' = IF r.threw
                          THEN [Ret("error") EXCEPT !.reason = "Run already started."]
                          ELSE Ret("void")
        IN  /\ Called(startRun(eng, contract))
            /\ UNCHANGED <<scenario, ui, idle, twin, held, hist, acts>>

Pause ==
    /\ eng' = pause(eng)
    /\ ret' = Ret("void")
    /\ UNCHANGED <<scenario, ui, idle, twin, held, hist, acts>>

Resume ==
    /\ eng' = resume(eng)
    /\ ret' = Ret("void")
    /\ UNCHANGED <<scenario, ui, idle, twin, held, hist, acts>>

Step ==
    LET Called(r) ==
            /\ eng' = r.e
            /\ ret' = [Ret("snapshot") EXCEPT !.by = "step", !.snapshot = <<r.snapshot>>]
            /\ hist' = IF r.e.state.tickIndex # eng.state.tickIndex
                       THEN HistAfterTick(hist, eng, r.e) ELSE hist
    IN  /\ Called(step(eng))
        /\ UNCHANGED <<scenario, ui, idle, twin, held, acts>>

Reset ==
    /\ eng' = reset(eng)
    /\ Budget(eng, eng')
    /\ ret' = [Ret("void") EXCEPT !.by = "reset"]
    /\ hist' = NoHist(eng')
    /\ UNCHANGED <<scenario, ui, idle, twin, held>>

RunHeadless ==
    LET Called(r) ==
            /\ eng' = r.e
            /\ ret' = IF r.threw
                      THEN [Ret("error") EXCEPT !.reason = "Run already started."]
                      ELSE [Ret("score") EXCEPT !.score = <<computeScore(r.e)>>]
            /\ hist' = IF r.threw THEN hist
                       ELSE HistAfterRun(hist, startRun(eng, [quantity |-> 0,
                                price |-> eng.scenario.meta.dayAheadDefaultPrice]).e)
    IN  /\ Called(runHeadless(eng))
        /\ UNCHANGED <<scenario, ui, idle, twin, held, acts>>

SetBatteryMode ==
    \E mode \in ModeInputs :
        /\ eng' = setBatteryMode(eng, mode)
        /\ Budget(eng, eng')
        /\ ret' = Ret("void")
        /\ UNCHANGED <<scenario, ui, idle, twin, held, hist>>

ToggleUnit ==
    \E unitId \in UnitInputs(scenario) :
        LET Called(r) ==
                /\ eng' = r.e
                /\ Budget(eng, r.e)
                /\ ret' = [Ret("toggle") EXCEPT !.ok = r.ok, !.reason = r.reason,
                                                   !.previousState = r.previousState]
                /\ held' = IF r.ok
                           THEN <<[unitId |-> unitId, previous |-> r.previousState]>>
                           ELSE held
        IN  /\ Called(toggleUnit(eng, unitId))
            /\ UNCHANGED <<scenario, ui, idle, twin, hist>>

RestoreUnitState ==
    /\ held # <<>>
    /\ eng' = restoreUnitState(eng, held[1].unitId, held[1].previous)
    /\ Budget(eng, eng')
    /\ ret' = Ret("void")
    /\ held' = <<>>
    /\ UNCHANGED <<scenario, ui, idle, twin, hist>>

ApplyOverrides ==
    \E o \in OverrideInputs :
        /\ eng' = applyOverrides(eng, o)
        /\ Budget(eng, eng')
        /\ ret' = Ret("void")
        /\ UNCHANGED <<scenario, ui, idle, twin, held, hist>>

Next ==
    \/ StartRun
    \/ Pause
    \/ Resume
    \/ Step
    \/ Reset
    \/ RunHeadless
    \/ SetBatteryMode
    \/ ToggleUnit
    \/ RestoreUnitState
    \/ ApplyOverrides

Spec == Init /\ [][Next]_vars

----------------------------------------------------------------------------
(* Properties of the engine under Spec *)

\* C1: runHeadless() ends with state.done true after exactly
\* round(durationHours * 60 / tickMinutes) ticks: when it returns its score,
\* tickIndex and the length of the tick log both equal that number.
C1_RunHeadlessTerminates ==
    ret.kind = "score" =>
        /\ eng.state.done
        /\ eng.state.tickIndex
               = RoundDiv(scenario.clock.durationHours * 60, scenario.clock.tickMinutes)
        /\ Len(eng.state.tickLog) = eng.state.tickIndex

\* runHeadless() has returned on the horizon of 1.5 ticks, which rounds up to 2
C1_Witness ==
    /\ ret.kind = "score"
    /\ (scenario.clock.durationHours * 60) % scenario.clock.tickMinutes # 0
    /\ eng.state.done
    /\ eng.state.tickIndex = 2

\* C3: in every reachable state the battery's state of charge lies between
\* 0 and its energy capacity.
C3_SocWithinCapacity ==
    /\ 0 <= eng.state.battery.socMWh
    /\ eng.state.battery.socMWh <= eng.state.battery.energyCapacity

\* a tick has discharged the battery to empty, or charged it to full
C3_Witness ==
    /\ eng.state.tickIndex > 0
    /\ \/ eng.state.battery.mode = "discharge" /\ eng.state.battery.socMWh = 0
       \/ eng.state.battery.mode = "charge"
              /\ eng.state.battery.socMWh = eng.state.battery.energyCapacity

\* every price of a sequence of zone records is a number no larger than cap
PricesCapped(zones, cap) == \A i \in 1..Len(zones) : NLe(zones[i].price, cap)

\* C4: every price stored in the zone state, in the price history and in the
\* tick log is at most meta.priceCap.
C4_PriceWithinCap ==
    LET cap == scenario.meta.priceCap
    IN  /\ PricesCapped(eng.state.zones, cap)
        /\ \A t \in 1..Len(eng.state.priceHistory) :
               \A i \in 1..Len(eng.state.priceHistory[t]) :
                   NLe(eng.state.priceHistory[t][i], cap)
        /\ \A t \in 1..Len(eng.state.tickLog) :
               PricesCapped(eng.state.tickLog[t].zones, cap)

\* a logged tick with load shedding priced a congested zone exactly at the cap
C4_Witness ==
    \E t \in 1..Len(eng.state.tickLog) :
        \E i \in 1..Len(eng.state.tickLog[t].zones) :
            /\ eng.state.tickLog[t].zones[i].congested
            /\ eng.state.tickLog[t].zones[i].price = scenario.meta.priceCap
            /\ eng.state.kpis.unmet > 0

\* C5: in every reachable state every transmission link carries a flow whose
\* magnitude is at most the link's current limit (a link whose limit is not a
\* number is left out of the comparison).
C5_FlowWithinLimit ==
    \A l \in 1..Len(eng.state.links) :
        IsNum(eng.state.links[l].limit) =>
            NLe(NAbs(eng.state.links[l].flow), eng.state.links[l].limit)

\* C6: over every executed tick a thermal unit's output changes by at most
\* its ramp: |output at the end of the tick - output at its start| <= ramp.
C6_RampBound ==
    hist.ticks >= 1 =>
        \A k \in 1..Len(eng.state.thermal) :
            Abs(hist.endLast[k] - hist.startLast[k]) <= eng.state.thermal[k].ramp

\* C7: in every reachable state every thermal unit's output lies between 0
\* and its pmax.
C7_OutputWithinPmax ==
    \A k \in 1..Len(eng.state.thermal) :
        /\ 0 <= eng.state.thermal[k].output
        /\ eng.state.thermal[k].output <= eng.state.thermal[k].pmax

\* a unit has ramped up over two ticks and is held at its pmax, below what
\* its ramp would allow
C7_Witness ==
    /\ hist.ticks >= 2
    /\ \E k \in 1..Len(eng.state.thermal) :
          /\ eng.state.thermal[k].output = eng.state.thermal[k].pmax
          /\ hist.startLast[k] + eng.state.thermal[k].ramp > eng.state.thermal[k].pmax
          /\ hist.startLast[k] < eng.state.thermal[k].pmax

\* C8: startRun(contract) called in a state that is running, paused or done
\* raises an error and leaves the whole engine as it was.
C8_StartRunOnlyInPreRun ==
    (~eng.preRun \/ eng.running \/ eng.state.done) =>
        \A contract \in Contracts :
            /\ startRun(eng, contract).threw
            /\ startRun(eng, contract).e = eng

\* C9: pause() changes the engine only when it is running, resume() only
\* when it has been started, is not running and is not done; in pre-run and
\* in done both change nothing.
C9_PauseResumeOnlyInRun ==
    /\ pause(eng) # eng => eng.running /\ ~eng.preRun /\ ~eng.state.done
    /\ resume(eng) # eng => ~eng.preRun /\ ~eng.running /\ ~eng.state.done
    /\ (eng.preRun \/ eng.state.done) => pause(eng) = eng /\ resume(eng) = eng

\* C10: once state.done is true a step() call changes nothing in the engine
\* and returns the snapshot of the tick that ended the run, with done = true;
\* no other operation replaces that snapshot while the run stays done.
C10_StepAfterDoneIsNoOp ==
    [][ /\ (eng.state.done /\ Step) =>
              /\ eng' = eng
              /\ ret'.snapshot = <<eng.latestSnapshot>>
              /\ ret'.snapshot[1].done
        /\ (~eng.state.done /\ eng'.state.done /\ Step) =>
              ret'.snapshot = <<eng'.latestSnapshot>>
        /\ (eng.state.done /\ eng'.state.done) =>
              eng'.latestSnapshot = eng.latestSnapshot ]_vars

\* step() has been called on a finished run after a unit was toggled: the
\* snapshot it returned is the one of the last tick, which does not show
\* the toggle
C10_Witness ==
    /\ eng.state.done
    /\ ret.kind = "snapshot"
    /\ ret.by = "step"
    /\ ret.snapshot = <<[eng.latestSnapshot EXCEPT !.done = TRUE]>>
    /\ \E k \in 1..Len(eng.state.thermal) :
          ret.snapshot[1].units[k].committed
              # (eng.state.thermal[k].commandOn \/ eng.state.thermal[k].committed)

\* C11: on an engine constructed without the headless option, step() while
\* the engine is not running (before the run or paused) changes nothing of
\* the engine: tick index, clock, tick log, KPIs, battery, unit outputs and
\* generator stay as they were and the snapshot returned is the stored one
\* (so a step() that changes an engine that is not running is one on a
\* headless engine)
C11_IdleStepAdvancesNothing ==
    [][ (~eng.headless /\ ~eng.running /\ ret'.by = "step" /\ Step) =>
              /\ eng' = eng
              /\ eng'.rng = eng.rng
              /\ eng'.state.tickIndex = eng.state.tickIndex
              /\ eng'.state.currentTime = eng.state.currentTime
              /\ eng'.state.tickLog = eng.state.tickLog
              /\ eng'.state.kpis = eng.state.kpis
              /\ eng'.state.battery = eng.state.battery
              /\ Outputs(eng') = Outputs(eng)
              /\ ret'.snapshot[1] = [eng.latestSnapshot EXCEPT !.done = eng.state.done] ]_vars

\* a paused run of a non-headless engine, one tick or more in, on which
\* step() has just been called
C11_Witness ==
    /\ ~eng.headless
    /\ ~eng.preRun /\ ~eng.running /\ ~eng.state.done
    /\ eng.state.tickIndex >= 1
    /\ ret.kind = "snapshot" /\ ret.by = "step"
    /\ ret.snapshot = <<eng.latestSnapshot>>

\* C12: a step() that executes a tick appends exactly one record to the tick
\* log, adds 1 to tickIndex and tickMinutes to currentTime; and in every
\* state the tick log has tickIndex records, kpis.priceCount = tickIndex,
\* currentTime = clock.start + tickIndex * tickMinutes and
\* 0 <= tickIndex <= totalTicks
C12_OneRecordPerTick ==
    /\ [](/\ Len(eng.state.tickLog) = eng.state.tickIndex
          /\ eng.state.kpis.priceCount = eng.state.tickIndex
          /\ eng.state.currentTime
                 = scenario.clock.start + eng.state.tickIndex * scenario.clock.tickMinutes
          /\ 0 <= eng.state.tickIndex
          /\ eng.state.tickIndex <= eng.totalTicks)
    \* a step() that changes the engine is one that executed a tick
    /\ [][ (ret'.by = "step" /\ eng' # eng /\ Step) =>
              /\ eng'.state.tickIndex = eng.state.tickIndex + 1
              /\ Len(eng'.state.tickLog) = Len(eng.state.tickLog) + 1
              /\ SubSeq(eng'.state.tickLog, 1, Len(eng.state.tickLog)) = eng.state.tickLog
              /\ eng'.state.tickLog[Len(eng'.state.tickLog)].timestamp = eng.state.currentTime
              /\ eng'.state.currentTime = eng.state.currentTime + eng.tickMinutes ]_vars

\* a run in its second tick or later, the last tick executed by step()
C12_Witness ==
    /\ ret.by = "step"
    /\ hist.ticks >= 2
    /\ eng.state.tickIndex >= 2
    /\ ~eng.state.done
    /\ Len(eng.state.tickLog) = eng.state.tickIndex

\* C13: from every reachable state reset() gives the engine a newly
\* constructed one has for the same scenario: before the run, not running,
\* not done, tick 0, empty tick and event logs, zeroed KPIs, no overrides,
\* link limits and unit parameters as the scenario configures them; and the
\* scenario the engine stores is the one it was constructed with, whatever
\* has been called
C13_ResetRebuilds ==
    LET Rebuilt(r) ==
            /\ r = NewEngine(scenario, eng.headless)
            /\ r.preRun /\ ~r.running /\ ~r.state.done
            /\ r.state.tickIndex = 0
            /\ r.state.tickLog = <<>>
            /\ r.state.events = <<>>
            /\ r.state.kpis = ZeroKpis
            /\ r.state.overrides = NoOverrides
            /\ \A l \in 1..Len(scenario.transmission) :
                  r.state.links[l].limit = scenario.transmission[l].limit
            /\ \A k \in 1..Len(scenario.thermalUnits) :
                  /\ r.state.thermal[k].pmax = scenario.thermalUnits[k].pmax
                  /\ r.state.thermal[k].ramp = scenario.thermalUnits[k].ramp
                  /\ ~r.state.thermal[k].commandOn
                  /\ r.state.thermal[k].output = 0
    IN  /\ eng.scenario = scenario
        /\ Rebuilt(reset(eng))

\* reset() has just been called and changed the engine, after another
\* intervention had changed it before
C13_Witness ==
    /\ ret.by = "reset"
    /\ acts = MaxActions
    /\ eng = NewEngine(scenario, eng.headless)
    /\ eng.state.tickIndex = 0 /\ eng.preRun

\* C14: toggleUnit(id) for an id no unit has, or for a unit with
\* outageTicks > 0, returns ok = false with a reason and leaves the engine
\* as it was; for any other unit it returns ok = true with the unit's
\* commandOn, committed and output from before the call, and the engine
\* differs from before in that unit's commandOn only, which is flipped
C14_ToggleUnitResult ==
    \A unitId \in UnitInputs(scenario) :
        LET Result(k, r) ==
                IF k = 0
                THEN ~r.ok /\ r.reason = "Unit not found." /\ r.e = eng
                ELSE IF eng.state.thermal[k].outageTicks > 0
                THEN ~r.ok /\ r.reason = "Unit is on forced outage." /\ r.e = eng
                ELSE /\ r.ok
                     /\ r.previousState = [commandOn |-> eng.state.thermal[k].commandOn,
                                           committed |-> eng.state.thermal[k].committed,
                                           output |-> eng.state.thermal[k].output]
                     /\ r.e.state.thermal[k].commandOn = ~eng.state.thermal[k].commandOn
                     /\ [r.e EXCEPT !.state.thermal[k].commandOn = ~@] = eng
        IN  Result(FindUnit(eng.state.thermal, unitId), toggleUnit(eng, unitId))

\* toggleUnit has just been refused for a unit on forced outage
C14_Witness ==
    /\ ret.kind = "toggle"
    /\ ~ret.ok
    /\ ret.reason = "Unit is on forced outage."
    /\ \E k \in 1..Len(eng.state.thermal) : eng.state.thermal[k].outageTicks > 0

\* C15: when toggleUnit(id) succeeds, restoreUnitState(id, previousState)
\* called straight after it gives back the engine from before the toggle:
\* the unit's commandOn, committed and output are the ones it had, and
\* nothing else differs
C15_ToggleThenRestore ==
    [][ (ret'.kind = "toggle" /\ ret'.ok /\ ToggleUnit) =>
           LET Restored(k, r) ==
                   /\ r = eng
                   /\ r.state.thermal[k].commandOn = eng.state.thermal[k].commandOn
                   /\ r.state.thermal[k].committed = eng.state.thermal[k].committed
                   /\ r.state.thermal[k].output = eng.state.thermal[k].output
           IN  Restored(FindUnit(eng.state.thermal, held'[1].unitId),
                        restoreUnitState(eng', held'[1].unitId, held'[1].previous)) ]_vars

\* toggleUnit has just switched off a committed unit that carries output
C15_Witness ==
    /\ ret.kind = "toggle"
    /\ ret.ok
    /\ ret.previousState.commandOn
    /\ ret.previousState.committed
    /\ ret.previousState.output > 0
    /\ held # <<>>
    /\ ~eng.state.thermal[FindUnit(eng.state.thermal, held[1].unitId)].commandOn
    /\ ~eng.state.done

\* C16: setBatteryMode('charge') on a full battery, or
\* setBatteryMode('discharge') on an empty one, leaves modeSetting as it is
\* and records the refusal as an event of the event log: one event more at
\* the end of state.events, carrying an id, which is also lastEvent
C16_BlockedModeChangeIsLogged ==
    \A mode \in {"charge", "discharge"} :
        LET battery == eng.state.battery
            Refused(f) ==
                /\ f.state.battery.modeSetting = battery.modeSetting
                /\ Len(f.state.events) = Len(eng.state.events) + 1
                /\ SubSeq(f.state.events, 1, Len(eng.state.events)) = eng.state.events
                /\ f.state.lastEvent # <<>>
                /\ f.state.lastEvent[1].hasId
                /\ f.state.events[Len(f.state.events)] = f.state.lastEvent[1]
        IN  (/\ battery.modeSetting # mode
             /\ \/ mode = "charge" /\ battery.socMWh >= battery.energyCapacity - 1
                \/ mode = "discharge" /\ battery.socMWh <= 1)
            => Refused(setBatteryMode(eng, mode))

\* C17: applyOverrides changes the settings whose field the call supplies
\* and no other: a field left out (or blank) keeps its override, a call
\* without tx leaves every link's limit as it is, a call with a number for
\* tx makes it every link's limit, and tick index, units, battery, KPIs and
\* logs are never touched
C17_OverridesOnlyWhatIsSupplied ==
    \A o \in OverrideInputs :
        LET Omitted(x) == x = Undefined \/ IsNaN(x)
            Applied(f) ==
                /\ Omitted(o.gas) => f.state.overrides.gas = eng.state.overrides.gas
                /\ Omitted(o.reserve) => f.state.overrides.reserve = eng.state.overrides.reserve
                /\ Omitted(o.outage) => f.state.overrides.outage = eng.state.overrides.outage
                /\ Omitted(o.tx) =>
                      /\ f.state.overrides.tx = eng.state.overrides.tx
                      /\ \A l \in 1..Len(eng.state.links) :
                            f.state.links[l].limit = eng.state.links[l].limit
                /\ IsNum(o.tx) =>
                      \A l \in 1..Len(eng.state.links) : f.state.links[l].limit = o.tx
                /\ f.state.tickIndex = eng.state.tickIndex
                /\ f.state.thermal = eng.state.thermal
                /\ f.state.battery = eng.state.battery
                /\ f.state.kpis = eng.state.kpis
                /\ f.state.tickLog = eng.state.tickLog
                /\ f.state.events = eng.state.events
        IN  Applied(applyOverrides(eng, o))

\* C20: the badge list computeScore() returns has three entries or more,
\* whatever the KPIs: here for the score runHeadless() returns
C20_AtLeastThreeBadges ==
    ret.kind = "score" => Len(ret.score[1].badges) >= 3

\* C21: the day-ahead settlement (price - avgPrice) * quantity *
\* durationHours is added to cash once per run, by the operation that makes
\* the run done: dayAhead.settled is true exactly in the states where
\* state.done is true; the transition that sets done adds the settlement to
\* the cash the last tick recorded and logs it; a tick that does not end the
\* run leaves cash at what the tick recorded; and once the run is done no
\* operation changes cash again.
C21_SettledOnceAtDone ==
    /\ [](/\ eng.state.dayAhead.settled <=> eng.state.done
          /\ Cardinality({i \in 1..Len(eng.state.events) :
                             eng.state.events[i].message.kind = "settled"})
                 = IF eng.state.done THEN 1 ELSE 0)
    /\ [][ LET Settled(st, recorded) ==
                   /\ st.kpis.cash =
                          NAdd(recorded,
                               IF IsNaN(st.kpis.avgPrice) THEN NaN
                               ELSE MulC(st.dayAhead.price - st.kpis.avgPrice,
                                         st.dayAhead.quantity)
                                        * scenario.clock.durationHours)
                   /\ st.lastEvent # <<>>
                   /\ st.lastEvent[1].message.kind = "settled"
               Unsettled(st, recorded) == st.kpis.cash = recorded
           IN  /\ (~eng.state.done /\ eng'.state.done) =>
                      Settled(eng'.state, eng'.state.tickLog[Len(eng'.state.tickLog)].kpis.cash)
               /\ (~eng'.state.done /\ eng'.state.tickIndex # eng.state.tickIndex
                       /\ ret'.by = "step") =>
                      Unsettled(eng'.state,
                                eng'.state.tickLog[Len(eng'.state.tickLog)].kpis.cash)
               /\ (eng.state.done /\ eng'.state.done) =>
                      eng'.state.kpis.cash = eng.state.kpis.cash ]_vars

\* a run started with a contract has been stepped to its end: the contract
\* is settled for a non-zero amount, which was logged and moved cash away
\* from what the last tick recorded
C21_Witness ==
    /\ eng.state.done
    /\ eng.state.dayAhead.settled
    /\ eng.state.dayAhead.quantity > 0
    /\ ret.by = "step"
    /\ ret.snapshot = <<[eng.latestSnapshot EXCEPT !.done = TRUE]>>
    /\ eng.state.lastEvent[1].message.kind = "settled"
    /\ eng.state.lastEvent[1].message.num # 0
    /\ eng.state.kpis.cash # eng.state.tickLog[Len(eng.state.tickLog)].kpis.cash

\* C25: the probability with which a unit that is not on outage starts one
\* in a tick is 1 - exp(-(poissonRate * m) * tickHours), where m is the
\* outage override when one has been applied, whatever number it is, and 1
\* otherwise; so while the outage override is 0 no unit starts a forced
\* outage.
C25_OutageProbability ==
    /\ [](\A k \in 1..Len(eng.state.thermal) :
             LET Probability(unit, m) ==
                     OneMinusExp(TimesHours(MulF(unit.poissonRate, m), eng.tickMinutes))
             IN  outageProbability(eng, eng.state.thermal[k])
                     = Probability(eng.state.thermal[k],
                                   IF IsNum(eng.state.overrides.outage)
                                   THEN eng.state.overrides.outage ELSE Milli))
    /\ [][ eng.state.overrides.outage = 0 =>
               \A k \in 1..Len(eng.state.thermal) :
                   eng.state.thermal[k].outageTicks = 0
                       => eng'.state.thermal[k].outageTicks = 0 ]_vars

\* C26: in a tick, a unit that is not on outage, is commanded off and still
\* carries output lowers its output by its ramp rate, toward 0; the output
\* it ramps down to is counted in its zone's supply; and it is not
\* committed at the end of that tick.
C26_RampDownUncommitted ==
    [][ (ret'.by = "step" /\ eng'.state.tickIndex # eng.state.tickIndex) =>
            \A k \in 1..Len(eng.state.thermal) :
                LET RampsDown(unit, after, rampedDown) ==
                        /\ after.output = rampedDown
                        /\ determineUnitTarget(unit, 0, 0, [output |-> 0, reserve |-> 0])
                               .alloc.output = rampedDown
                        /\ ~after.committed
                    Unit(unit, after) ==
                        (/\ ~unit.commandOn
                         /\ unit.output > 0
                         /\ unit.outageTicks = 0
                         /\ after.outageTicks = 0)
                            => RampsDown(unit, after, Max2(0, unit.output - unit.ramp))
                IN  Unit(eng.state.thermal[k], eng'.state.thermal[k]) ]_vars

\* C31: in every reachable state, of a headless engine as of one that is
\* not, the lifecycle flags describe exactly one of pre-run, running, paused
\* and done: preRun implies not running, preRun implies not done, and
\* running implies not done.
C31_OneLifecycleState ==
    /\ eng.preRun => ~eng.running
    /\ eng.preRun => ~eng.state.done
    /\ eng.running => ~eng.state.done

\* C32: at the end of every tick each thermal unit's output equals the
\* targetOutput the dispatcher gave it in that tick, so that the MW the
\* balancing, the flows and the unmet load were computed from are the MW
\* fuel, VOM and emissions are charged on.
C32_OutputIsTarget ==
    [][ (ret'.by = "step" /\ eng'.state.tickIndex # eng.state.tickIndex) =>
            \A k \in 1..Len(eng'.state.thermal) :
                eng'.state.thermal[k].output = eng'.state.thermal[k].targetOutput ]_vars

----------------------------------------------------------------------------
(* Two engines on one scenario: eng is stepped straight through, twin is
   paused, resumed, queried and stepped while idle in between; both get the
   same user actions, each applied when both stand at the same tick index;
   idle collects the kinds of calls made on twin that executed no tick *)

\* the user actions of the determinism runs
DetModeInputs == {"discharge"}
DetOverrideInputs == {[Blank EXCEPT !.outage = 2 * Milli], [Blank EXCEPT !.tx = 10 * Scale]}

\* idle after one more call of the given kind that executed no tick; calls
\* made once twin's run is over are not collected
IdleAfter(kind) == IF twin.state.done THEN idle ELSE idle \cup {kind}

SameTick == eng.state.tickIndex = twin.state.tickIndex

InitDet ==
    /\ scenario \in Scenarios
    /\ eng = NewEngine(scenario, Headless(scenario))
    /\ twin = eng
    /\ idle = {}
    /\ ret = Ret("void")
    /\ held = <<>>
    /\ hist = NoHist(eng)
    /\ acts = 0
    /\ ui = NewUI

BothStartRun ==
    \E contract \in Contracts :
        /\ SameTick
        /\ eng' = startRun(eng, contract).e
        /\ twin' = startRun(twin, contract).e
        /\ ret' = IF startRun(twin, contract).threw
                  THEN [Ret("error") EXCEPT !.reason = "Run already started."]
                  ELSE Ret("void")
        /\ UNCHANGED <<scenario, ui, idle, held, hist, acts>>

BothToggleUnit ==
    \E unitId \in UnitInputs(scenario) :
        /\ SameTick
        /\ eng' = toggleUnit(eng, unitId).e
        /\ twin' = toggleUnit(twin, unitId).e
        /\ Budget(eng, eng')
        /\ ret' = Ret("void")
        /\ UNCHANGED <<scenario, ui, idle, held, hist>>

BothSetBatteryMode ==
    \E mode \in DetModeInputs :
        /\ SameTick
        /\ eng' = setBatteryMode(eng, mode)
        /\ twin' = setBatteryMode(twin, mode)
        /\ Budget(eng, eng')
        /\ ret' = Ret("void")
        /\ UNCHANGED <<scenario, ui, idle, held, hist>>

BothApplyOverrides ==
    \E o \in DetOverrideInputs :
        /\ SameTick
        /\ eng' = applyOverrides(eng, o)
        /\ twin' = applyOverrides(twin, o)
        /\ Budget(eng, eng')
        /\ ret' = Ret("void")
        /\ UNCHANGED <<scenario, ui, idle, held, hist>>

EngStep ==
    /\ eng' = step(eng).e
    /\ ret' = Ret("void")
    /\ UNCHANGED <<scenario, ui, idle, twin, held, hist, acts>>

TwinStep ==
    /\ twin' = step(twin).e
    /\ idle' = IF step(twin).ticked THEN idle ELSE IdleAfter("step")
    /\ ret' = Ret("void")
    /\ UNCHANGED <<scenario, ui, eng, held, hist, acts>>

TwinPause ==
    /\ twin' = pause(twin)
    /\ idle' = IdleAfter("pause")
    /\ ret' = Ret("void")
    /\ UNCHANGED <<scenario, ui, eng, held, hist, acts>>

TwinResume ==
    /\ twin' = resume(twin)
    /\ idle' = IdleAfter("resume")
    /\ ret' = Ret("void")
    /\ UNCHANGED <<scenario, ui, eng, held, hist, acts>>

TwinCurrentSnapshot ==
    /\ idle' = IdleAfter("currentSnapshot")
    /\ ret' = [Ret("snapshot") EXCEPT !.by = "currentSnapshot",
                                       !.snapshot = <<currentSnapshot(twin)>>]
    /\ UNCHANGED <<scenario, ui, eng, twin, held, hist, acts>>

NextDet ==
    \/ BothStartRun
    \/ BothToggleUnit
    \/ BothSetBatteryMode
    \/ BothApplyOverrides
    \/ EngStep
    \/ TwinStep
    \/ TwinPause
    \/ TwinResume
    \/ TwinCurrentSnapshot

SpecDet == InitDet /\ [][NextDet]_vars

\* C2: two engines built from one scenario and given the same user actions
\* at the same tick indices produce identical tick logs, however the steps
\* of one are interleaved with pause(), resume(), currentSnapshot() and
\* no-op step() calls: the shorter tick log is a prefix of the longer, and
\* at equal tick index the generators, the logs and the KPIs are equal.
C2_SameRunSameLog ==
    LET n == Min2(Len(eng.state.tickLog), Len(twin.state.tickLog))
    IN  /\ SubSeq(eng.state.tickLog, 1, n) = SubSeq(twin.state.tickLog, 1, n)
        /\ SameTick =>
              /\ eng.rng = twin.rng
              /\ eng.state.tickLog = twin.state.tickLog
              /\ eng.state.kpis = twin.state.kpis

\* both runs are complete after a user action, and twin's run was
\* interleaved with every kind of call that executes no tick
C2_Witness ==
    /\ acts >= 1
    /\ idle = {"pause", "resume", "currentSnapshot", "step"}
    /\ eng.state.done
    /\ twin.state.done
    /\ Len(twin.state.tickLog) = eng.totalTicks
    /\ Len(twin.state.tickLog) > 0
    /\ eng.state.tickLog = twin.state.tickLog

----------------------------------------------------------------------------
(* A caller that reads the engine while it runs: it steps, pauses, asks for
   snapshots, the score and the CSV export, and writes into a snapshot it
   was handed.  A snapshot is a JavaScript object: what a write to it
   reaches is decided by which of its parts buildSnapshot and step share
   with the engine *)

\* what the caller writes: a number into a load or a price, a kind into a
\* message
TamperedParts == {"zones", "priceHistory", "lastEvent"}
TamperedNumber == 0 - (7 * Scale)

\* the snapshot the caller holds after it wrote into the given part
tamperSnapshot(snapshot, part) ==
    IF part = "zones"
    THEN [snapshot EXCEPT !.zones[1].load = TamperedNumber]
    ELSE IF part = "priceHistory"
    THEN [snapshot EXCEPT !.priceHistory[Len(snapshot.priceHistory)][1] = TamperedNumber]
    ELSE [snapshot EXCEPT !.lastEvent[1].message.kind = "tampered"]

\* the parts of a snapshot that hold something to write into; of the events
\* only those logEvent made are followed (they are told apart by their id)
CanTamper(snapshot, part) ==
    IF part = "zones" THEN Len(snapshot.zones) >= 1
    ELSE IF part = "priceHistory"
    THEN snapshot.priceHistory # <<>> /\ Len(snapshot.priceHistory[Len(snapshot.priceHistory)]) >= 1
    ELSE snapshot.lastEvent # <<>> /\ snapshot.lastEvent[1].hasId

\* the engine after the caller wrote into that part of a snapshot that
\* step() (by = "step") or currentSnapshot() returned on the previous call:
\*   - step() returns this.latestSnapshot itself, or a spread of it whose
\*     zones array is the same array, so a write to snapshot.zones[0] is a
\*     write to latestSnapshot.zones[0]; currentSnapshot() builds new zones
\*   - priceHistory is state.priceHistory.slice(): a new array of the same
\*     priceSample objects, which latestSnapshot.priceHistory holds as well
\*   - lastEvent is the event object itself, the one state.events holds and
\*     state.lastEvent and latestSnapshot.lastEvent may still point to
tamperEngine(e, snapshot, by, part) ==
    IF part = "zones"
    THEN IF by = "step" THEN [e EXCEPT !.latestSnapshot.zones[1].load = TamperedNumber] ELSE e
    ELSE IF part = "priceHistory"
    THEN LET n == Len(snapshot.priceHistory)
         IN  [e EXCEPT !.state.priceHistory[n][1] = TamperedNumber,
                       !.latestSnapshot.priceHistory =
                           IF Len(@) >= n THEN [@ EXCEPT ![n][1] = TamperedNumber] ELSE @]
    ELSE LET id == snapshot.lastEvent[1].id
             Same(ev) == ev # <<>> /\ ev[1].hasId /\ ev[1].id = id
         IN  [e EXCEPT !.state.events[id + 1].message.kind = "tampered",
                       !.state.lastEvent =
                           IF Same(@) THEN [@ EXCEPT ![1].message.kind = "tampered"] ELSE @,
                       !.latestSnapshot.lastEvent =
                           IF Same(@) THEN [@ EXCEPT ![1].message.kind = "tampered"] ELSE @]

ReadStartRun ==
    \E contract \in Contracts :
        LET Called(r) ==
                /\ eng' = r.e
                /\ ret' = IF r.threw
                          THEN [Ret("error") EXCEPT !.reason = "Run already started."]
                          ELSE Ret("void")
        IN  /\ Called(startRun(eng, contract))
            /\ UNCHANGED <<scenario, ui, idle, twin, held, hist, acts>>

ReadStep ==
    LET Called(r) ==
            /\ eng' = r.e
            /\ ret' = [Ret("snapshot") EXCEPT !.by = "step", !.snapshot = <<r.snapshot>>]
    IN  /\ Called(step(eng))
        /\ UNCHANGED <<scenario, ui, idle, twin, held, hist, acts>>

ReadPause ==
    /\ eng' = pause(eng)
    /\ ret' = Ret("void")
    /\ UNCHANGED <<scenario, ui, idle, twin, held, hist, acts>>

ReadResume ==
    /\ eng' = resume(eng)
    /\ ret' = Ret("void")
    /\ UNCHANGED <<scenario, ui, idle, twin, held, hist, acts>>

CurrentSnapshot ==
    /\ ret' = [Ret("snapshot") EXCEPT !.by = "currentSnapshot",
                                      !.snapshot = <<currentSnapshot(eng)>>]
    /\ UNCHANGED <<scenario, ui, eng, idle, twin, held, hist, acts>>

ComputeScore ==
    /\ ret' = [Ret("score") EXCEPT !.by = "computeScore", !.score = <<computeScore(eng)>>]
    /\ UNCHANGED <<scenario, ui, eng, idle, twin, held, hist, acts>>

ExportCsv ==
    /\ ret' = [Ret("csv") EXCEPT !.rows = exportCsv(eng)]
    /\ UNCHANGED <<scenario, ui, eng, idle, twin, held, hist, acts>>

\* the caller writes into the snapshot the previous call returned
TamperSnapshot ==
    /\ ret.kind = "snapshot"
    /\ \E part \in TamperedParts :
          /\ CanTamper(ret.snapshot[1], part)
          /\ eng' = tamperEngine(eng, ret.snapshot[1], ret.by, part)
          /\ ret' = [ret EXCEPT !.snapshot[1] = tamperSnapshot(@, part)]
          /\ Budget(eng, eng')
    /\ UNCHANGED <<scenario, ui, idle, twin, held, hist>>

NextReads ==
    \/ ReadStartRun
    \/ ReadStep
    \/ ReadPause
    \/ ReadResume
    \/ CurrentSnapshot
    \/ ComputeScore
    \/ ExportCsv
    \/ TamperSnapshot

SpecReads == Init /\ [][NextReads]_vars

----------------------------------------------------------------------------
(* Properties of the engine under SpecReads *)

\* C18: whenever exportCsv() is called, before, during or after a run, it
\* returns the header row followed by one row per zone for each completed
\* tick, the ticks in the order they were executed and within a tick the
\* zones in their configured order
C18_CsvRowCount ==
    ret.kind = "csv" =>
        LET zones == scenario.zones
            ticks == eng.state.tickIndex
        IN  /\ Len(ret.rows) = 1 + ticks * Len(zones)
            /\ ret.rows[1] = CsvHeader
            /\ \A t \in 1..ticks : \A z \in 1..Len(zones) :
                  /\ ret.rows[1 + (t - 1) * Len(zones) + z][1]
                         = scenario.clock.start + (t - 1) * scenario.clock.tickMinutes
                  /\ ret.rows[1 + (t - 1) * Len(zones) + z][3] = zones[z].id

\* the export of a run that has completed two ticks or more and is not over
C18_Witness ==
    /\ ret.kind = "csv"
    /\ eng.state.tickIndex >= 2
    /\ ~eng.state.done
    /\ Len(ret.rows) = 1 + eng.state.tickIndex * Len(scenario.zones)
    /\ Len(ret.rows) >= 7

\* C19: a write into a snapshot that step() or currentSnapshot() returned
\* changes nothing of the engine's runtime state and nothing of what a later
\* currentSnapshot() or step() returns
C19_SnapshotIsACopy ==
    [][ TamperSnapshot =>
           /\ eng'.state = eng.state
           /\ currentSnapshot(eng') = currentSnapshot(eng)
           /\ step(eng').snapshot = step(eng).snapshot ]_vars

----------------------------------------------------------------------------
(* The engine behind its page: the handlers of SimulationUI and the        *)
(* callback of the interval timer, on the engine init() constructs         *)
(* (without the headless option)                                           *)

InitUI ==
    /\ scenario \in Scenarios
    /\ eng = NewEngine(scenario, FALSE)
    /\ twin = eng
    /\ idle = {}
    /\ ret = Ret("void")
    /\ held = <<>>
    /\ hist = NoHist(eng)
    /\ acts = 0
    /\ ui = NewUI

\* handleStart()
HandleStart ==
    \E contract \in Contracts :
        LET Called(r) ==
                /\ eng' = r.e
                /\ ui' = IF r.threw THEN [ui EXCEPT !.feedback = "Run already started."]
                         ELSE [ui EXCEPT !.feedback = "", !.tickTimer = TRUE]
        IN  /\ Called(startRun(eng, contract))
            /\ ret' = [Ret("void") EXCEPT !.by = "handleStart"]
            /\ UNCHANGED <<scenario, idle, twin, held, hist, acts>>

\* handlePause()
HandlePause ==
    /\ IF ~eng.running THEN UNCHANGED <<eng, ui>>
       ELSE /\ ui' = [ui EXCEPT !.tickTimer = FALSE]
            /\ eng' = pause(eng)
    /\ ret' = [Ret("void") EXCEPT !.by = "handlePause"]
    /\ UNCHANGED <<scenario, idle, twin, held, hist, acts>>

\* handleResume()
HandleResume ==
    /\ IF ~canResume(eng) THEN UNCHANGED <<eng, ui>>
       ELSE /\ eng' = resume(eng)
            /\ ui' = [ui EXCEPT !.tickTimer = TRUE]
    /\ ret' = [Ret("void") EXCEPT !.by = "handleResume"]
    /\ UNCHANGED <<scenario, idle, twin, held, hist, acts>>

\* handleReset()
HandleReset ==
    /\ eng' = reset(eng)
    /\ Budget(eng, eng')
    /\ ui' = [ui EXCEPT !.tickTimer = FALSE, !.undoDisabled = TRUE, !.feedback = ""]
    /\ ret' = [Ret("void") EXCEPT !.by = "handleReset"]
    /\ hist' = NoHist(eng')
    /\ UNCHANGED <<scenario, idle, twin, held>>

\* handleUnitToggle(unitId), from the unit's button
HandleUnitToggle ==
    \E unitId \in UnitIds(scenario) :
        LET Called(r) ==
                /\ eng' = r.e
                /\ Budget(eng, r.e)
                /\ ui' = IF ~r.ok THEN [ui EXCEPT !.feedback = r.reason]
                         ELSE [ui EXCEPT
                                  !.lastAction = <<[type |-> "unit", unitId |-> unitId,
                                                    previous |-> r.previousState,
                                                    tick |-> eng.state.tickIndex]>>,
                                  !.undoDisabled = FALSE,
                                  !.feedback = ""]
        IN  /\ IF ~eng.running /\ ~eng.preRun
               THEN /\ ui' = [ui EXCEPT
                                 !.feedback = "Start the simulation before toggling units."]
                    /\ UNCHANGED <<eng, acts>>
               ELSE Called(toggleUnit(eng, unitId))
            /\ ret' = [Ret("void") EXCEPT !.by = "handleUnitToggle"]
            /\ UNCHANGED <<scenario, idle, twin, held, hist>>

\* handleUndo(), from the undo button while it can be clicked
HandleUndo ==
    /\ ~ui.undoDisabled
    /\ IF ui.lastAction = <<>> THEN UNCHANGED <<eng, ui, acts>>
       ELSE IF simulatedHour(eng, eng.state.tickIndex)
                   # simulatedHour(eng, ui.lastAction[1].tick)
       THEN /\ ui' = [ui EXCEPT
                         !.feedback = "Undo unavailable: more than an hour has passed."]
            /\ UNCHANGED <<eng, acts>>
       ELSE /\ eng' = restoreUnitState(eng, ui.lastAction[1].unitId,
                                       ui.lastAction[1].previous)
            /\ Budget(eng, eng')
            /\ ui' = [ui EXCEPT !.feedback = "Last unit action undone.",
                                !.undoDisabled = TRUE]
    /\ ret' = [Ret("void") EXCEPT !.by = "handleUndo"]
    /\ UNCHANGED <<scenario, idle, twin, held, hist>>

\* updateSpeed(value): a timer that is set is cleared and set again at the
\* new interval
UpdateSpeed ==
    \E value \in Speeds :
        LET stopped == [ui EXCEPT !.speed = value, !.tickTimer = FALSE]
        IN  /\ ui' = IF ui.tickTimer THEN [stopped EXCEPT !.tickTimer = TRUE]
                     ELSE [ui EXCEPT !.speed = value]
            /\ ret' = [Ret("void") EXCEPT !.by = "updateSpeed"]
            /\ UNCHANGED <<scenario, eng, idle, twin, held, hist, acts>>

\* a variant of the callback that leaves the timer set when the run is
\* done; the timer property must tell it from TimerTick
TimerTick_keepsTicking ==
    LET Called(r) ==
            /\ eng' = r.e
            /\ ui' = ui
            /\ ret' = [Ret("snapshot") EXCEPT !.by = "step", !.snapshot = <<r.snapshot>>]
            /\ hist' = IF r.e.state.tickIndex # eng.state.tickIndex
                       THEN HistAfterTick(hist, eng, r.e) ELSE hist
    IN  /\ ui.tickTimer
        /\ Called(step(eng))
        /\ UNCHANGED <<scenario, idle, twin, held, acts>>

\* the callback resumeTicking() hands to setInterval, while the timer is set
TimerTick ==
    LET Called(r) ==
            /\ eng' = r.e
            /\ ui' = IF r.snapshot.done THEN [ui EXCEPT !.tickTimer = FALSE] ELSE ui
            /\ ret' = [Ret("snapshot") EXCEPT !.by = "step", !.snapshot = <<r.snapshot>>]
            /\ hist' = IF r.e.state.tickIndex # eng.state.tickIndex
                       THEN HistAfterTick(hist, eng, r.e) ELSE hist
    IN  /\ ui.tickTimer
        /\ Called(step(eng))
        /\ UNCHANGED <<scenario, idle, twin, held, acts>>

NextUI ==
    \/ HandleStart
    \/ HandlePause
    \/ HandleResume
    \/ HandleReset
    \/ HandleUnitToggle
    \/ HandleUndo
    \/ UpdateSpeed
    \/ TimerTick

SpecUI == InitUI /\ [][NextUI]_vars

----------------------------------------------------------------------------
(* Properties of the page under SpecUI *)

\* C22: handleUndo() on a recorded unit toggle is applied exactly when no
\* more than one hour of ticks has passed since the toggle (at most
\* 60 / tickMinutes ticks), and refused, with 'more than an hour has
\* passed', only when more than an hour of ticks has passed.
C22_UndoWithinAnHourOfTicks ==
    [][ (ret'.by = "handleUndo" /\ ui.lastAction # <<>> /\ HandleUndo) =>
            LET Undo(a, now, m) ==
                    /\ ui'.feedback = "Last unit action undone."
                           => (now - a.tick) * m <= 60
                    /\ ui'.feedback = "Undo unavailable: more than an hour has passed."
                           => (now - a.tick) * m > 60
            IN  Undo(ui.lastAction[1], eng.state.tickIndex, eng.tickMinutes) ]_vars

\* C33: after any sequence of handleStart, handlePause, handleResume,
\* handleReset, updateSpeed and timer callbacks the tick timer is set if and
\* only if engine.running is true; a timer callback therefore calls step()
\* only on an engine that is running (not in pre-run, not paused, not done),
\* and the callback in which the run becomes done clears the timer.
C33_TimerIffRunning ==
    /\ [](ui.tickTimer <=> eng.running)
    /\ [][ ret'.by = "step" /\ ret' # ret =>
               /\ ui.tickTimer /\ eng.running /\ ~eng.preRun /\ ~eng.state.done
               /\ eng'.state.tickIndex = eng.state.tickIndex + 1
               /\ eng'.state.done => ~ui'.tickTimer /\ ~eng'.running ]_vars

\* the page at the callback that finished a run whose speed was changed on
\* the way: the engine no longer runs and the timer is cleared
C33_Witness ==
    /\ ret.by = "step"
    /\ eng.state.done
    /\ ~eng.running
    /\ ~ui.tickTimer
    /\ ui.speed = 4

----------------------------------------------------------------------------
(* Unit commands between the ticks of a longer run: a headless engine on a *)
(* scenario of four ticks whose link a-b has no capacity, whose first unit *)
(* fails often and whose windy zone a has a small unit of its own, stepped *)
(* by its caller, who toggles units and undoes the last toggle             *)

OutageScenario ==
    [BaseScenario EXCEPT
        !.meta.seed = 17,
        !.clock.durationHours = 4,
        !.transmission = << [id |-> "ab", from |-> "a", to |-> "b", limit |-> 0],
                            [id |-> "ca", from |-> "c", to |-> "a", limit |-> 80 * Scale] >>,
        !.thermalUnits =
            << [BaseScenario.thermalUnits[1] EXCEPT !.poissonRate = 400],
               BaseScenario.thermalUnits[2],
               [id |-> "g4", zone |-> "a", pmax |-> 50 * Scale, pmin |-> 30 * Scale,
                ramp |-> 50 * Scale, heatRate |-> 9 * Scale, fuelPrice |-> 40 * Scale,
                vom |-> 1 * Scale, emissions |-> 30, reserveCap |-> 10 * Scale,
                poissonRate |-> 0, repairHours |-> <<1 * Scale, 1 * Scale>>] >>]

\* the caller of this run may intervene once more than MaxActions times
InitUnits ==
    /\ scenario = OutageScenario
    /\ eng = NewEngine(scenario, TRUE)
    /\ twin = eng
    /\ idle = {}
    /\ ret = Ret("void")
    /\ held = <<>>
    /\ hist = NoHist(eng)
    /\ acts = 0 - 1
    /\ ui = NewUI

NextUnits ==
    \/ Step
    \/ ToggleUnit
    \/ RestoreUnitState

SpecUnits == InitUnits /\ [][NextUnits]_vars

----------------------------------------------------------------------------
(* Properties of the engine under SpecUnits *)

\* C23: after every tick, every zone's price is the price cap if any zone
\* has unmet load in that tick; otherwise it is min(priceCap, max(30,
\* highest variable cost among the zone's units with targetOutput > 0) +
\* adder), where adder is 15 if the zone is an endpoint of at least one
\* congested link (15 also with two congested links) and 0 otherwise.
C23_ZonePrice ==
    [][ (ret'.by = "step" /\ eng'.state.tickIndex # eng.state.tickIndex) =>
            LET Price(e, st, zone, loadShed, adder) ==
                    IF loadShed THEN e.scenario.meta.priceCap
                    ELSE LET costs == {variableCost(e, st.thermal[k]) :
                                          k \in {j \in 1..Len(st.thermal) :
                                                    /\ st.thermal[j].zone = zone.id
                                                    /\ st.thermal[j].targetOutput > 0}}
                                      \cup {30 * Scale}
                         IN  Min2(e.scenario.meta.priceCap,
                                  (CHOOSE m \in costs : \A c \in costs : m >= c) + adder)
                Priced(e, st) ==
                    \A i \in 1..Len(st.zones) :
                        st.zones[i].price =
                            Price(e, st, st.zones[i],
                                  NGt(NSumSeq([j \in 1..Len(st.zones) |->
                                                  NMax(0, st.zones[j].netLoad)]), 0),
                                  IF \E l \in 1..Len(st.links) :
                                        /\ st.links[l].congested
                                        /\ st.zones[i].id \in {st.links[l].from, st.links[l].to}
                                  THEN 15 * Scale ELSE 0)
            IN  Priced(eng', eng'.state) ]_vars

\* C24: in every reachable state, a thermal unit whose outageTicks > 0 has
\* commandOn = false and output = 0: it stays forced off for the whole of
\* its outage, whatever step, toggleUnit and restoreUnitState calls are made.
C24_ForcedOffDuringOutage ==
    \A k \in 1..Len(eng.state.thermal) :
        eng.state.thermal[k].outageTicks > 0 =>
            /\ ~eng.state.thermal[k].commandOn
            /\ eng.state.thermal[k].output = 0

\* C27: in every tick, taking the commanded-on units of one zone that are not
\* on outage in ascending variable cost (heatRate * fuelPrice / 10 + vom, the
\* gas override in place of fuelPrice when set; the configured order between
\* equal costs): when a unit's target is below its feasible maximum
\* min(pmax, output + ramp), every costlier commanded-on unit of the zone
\* has target 0; and a unit that faces positive remaining load (the zone's
\* net load after the battery, less the targets of the units before it) has
\* a target of at least min(pmin, feasible maximum).
C27_MeritOrder ==
    [][ (ret'.by = "step" /\ eng'.state.tickIndex # eng.state.tickIndex) =>
            LET Dispatched(before, after, zones, battery, gasOverride, batteryZone) ==
                    LET On(k) == before[k].commandOn /\ after[k].outageTicks = 0
                        Cost(k) ==
                            (MulC(before[k].heatRate,
                                  IF gasOverride = Undefined THEN before[k].fuelPrice
                                  ELSE gasOverride) \div 10) + before[k].vom
                        Earlier(j, k) ==
                            /\ before[j].zone = before[k].zone
                            /\ \/ Cost(j) < Cost(k)
                               \/ Cost(j) = Cost(k) /\ j < k
                        FeasibleMax(k) == Min2(before[k].pmax, before[k].output + before[k].ramp)
                        NetLoad(i) ==
                            IF zones[i].id = batteryZone
                            THEN Max2(0, Max2(0, zones[i].load - zones[i].renewable)
                                         + battery.chargeMW - battery.dischargeMW)
                            ELSE Max2(0, zones[i].load - zones[i].renewable)
                        Remaining(k) ==
                            Max2(0, NetLoad(FindById(zones, before[k].zone))
                                    - SumSeq([j \in 1..Len(before) |->
                                                 IF Earlier(j, k) THEN after[j].targetOutput
                                                 ELSE 0]))
                    IN  \A k \in 1..Len(before) :
                            On(k) =>
                                /\ after[k].targetOutput < FeasibleMax(k) =>
                                       \A j \in 1..Len(before) :
                                           (On(j) /\ before[j].zone = before[k].zone
                                                  /\ Cost(j) > Cost(k))
                                               => after[j].targetOutput = 0
                                /\ Remaining(k) > 0 =>
                                       after[k].targetOutput
                                           >= Min2(before[k].pmin, FeasibleMax(k))
            IN  Dispatched(eng.state.thermal, eng'.state.thermal, eng'.state.zones,
                           eng'.state.tickLog[Len(eng'.state.tickLog)].battery,
                           eng.state.overrides.gas, eng.state.battery.zone) ]_vars

\* after a tick of the run with all three units on: g2, the cheaper unit of
\* zone b, carries the zone below its maximum and the costlier g1 is held at
\* 0, while g4 in zone a, facing less load than its pmin, is held at its pmin
C27_Witness ==
    /\ ret.by = "step"
    /\ eng.state.tickIndex = 1
    /\ \A k \in 1..3 : eng.state.thermal[k].commandOn /\ eng.state.thermal[k].outageTicks = 0
    /\ eng.state.thermal[2].targetOutput > 0
    /\ eng.state.thermal[2].targetOutput < eng.state.thermal[2].pmax
    /\ eng.state.thermal[1].targetOutput = 0
    /\ eng.state.thermal[3].targetOutput = eng.state.thermal[3].pmin
    /\ eng.state.tickLog[1].battery.chargeMW < eng.state.thermal[3].pmin
    /\ eng.state.tickLog[1].battery.chargeMW > 0

C29_CongestedLinks ==
    [][ /\ (ret'.by = "step" /\ eng'.state.tickIndex # eng.state.tickIndex) =>
               LET Flagged(links, before, after) ==
                       /\ \A l \in 1..Len(links) :
                              /\ links[l].congested
                                     <=> NGe(NAbs(links[l].flow),
                                             NSub(ToNumber(links[l].limit), 1))
                              /\ links[l].limit = 0 =>
                                     links[l].congested /\ links[l].flow = 0
                       /\ after = before + (IF \E l \in 1..Len(links) : links[l].congested
                                            THEN 1 ELSE 0)
               IN  Flagged(eng'.state.links, eng.state.kpis.congestedTicks,
                           eng'.state.kpis.congestedTicks)
        /\ eng'.state.kpis.congestedTicks > eng.state.kpis.congestedTicks
               => eng'.state.tickIndex > eng.state.tickIndex ]_vars

\* two ticks, the first without congestion, the second after the limits
\* were set to 0: the links are congested with no flow and one tick counted
C29_Witness ==
    /\ ret.by = "step"
    /\ eng.state.tickIndex = 2
    /\ eng.state.kpis.congestedTicks = 1
    /\ \A l \in 1..Len(eng.state.links) :
           /\ eng.state.links[l].limit = 0
           /\ eng.state.links[l].congested
           /\ eng.state.links[l].flow = 0

\* C30: in every tick the square root of the round-trip efficiency (of 0.9
\* when none is configured) is applied on the battery's leg: when it charges
\* at chargeMW the state of charge rises by exactly
\* chargeMW * tickHours * sqrt(roundTripEff), and when it discharges at
\* dischargeMW the state of charge falls by exactly
\* dischargeMW * tickHours / sqrt(roundTripEff); the energy a full cycle
\* delivers is then at most roundTripEff times the energy it absorbed.
C30_EfficiencyOnEachLeg ==
    [][ (ret'.by = "step" /\ eng'.state.tickIndex # eng.state.tickIndex) =>
            LET Leg(soc, after, dispatch, eff, tm) ==
                    /\ dispatch.mode = "charge" =>
                           after - soc = MulF(TimesHours(dispatch.chargeMW, tm), eff)
                    /\ dispatch.mode = "discharge" =>
                           soc - after = DivF(TimesHours(dispatch.dischargeMW, tm), eff)
            IN  Leg(eng.state.battery.socMWh, eng'.state.battery.socMWh,
                    eng'.state.tickLog[Len(eng'.state.tickLog)].battery,
                    SqrtF(IF eng.state.battery.roundTripEff = 0 THEN DefaultRoundTripEff
                          ELSE eng.state.battery.roundTripEff),
                    eng.tickMinutes) ]_vars

====
